---- MODULE Spec2Model ----
(***************************************************************************)
(* FPLAPI (src/src/fpl_mcp/fpl/api.py): the fetch pipeline _make_request,  *)
(* the proxy rotation cursor shared by all fetches of the singleton `api`, *)
(* and the calls it makes on the shared rate limiter.                      *)
(*                                                                         *)
(* _make_request is a coroutine: it only yields at its awaits (acquire,    *)
(* the HTTP call, asyncio.sleep).  Every action below is one resumption of *)
(* one coroutine: the code from one await up to the next one.              *)
(***************************************************************************)
EXTENDS Integers, Sequences, FiniteSets, TLC

\* ------------------------------------------------------------------ bounds
\* Largest proxy pool explored (config.PROXY_LIST is a list of any length).
MaxProxies == 2
\* Most calls of _get_next_proxy made in a row on one rotator.
MaxDraws == 6
\* Most phases in a bootstrap-static payload.
MaxPhases == 2
\* Most entries in the gameweek list.
MaxGameweeks == 3
\* The clock takes MaxTicks steps of TickSeconds.
MaxTicks == 2
\* Most calls one caller makes.
MaxCalls == 1

\* The clock of the cache chain takes MaxStaleTicks steps of
\* StaleTickSeconds, in which MaxStaleCalls calls are made.
MaxStaleTicks == 3
MaxStaleCalls == 4

\* JSON-RPC requests carry the ids 1..MaxRpcIds or none; the data accessors
\* return the documents 1..MaxRpcDocs, or 0: a value json.dumps rejects.
MaxRpcIds == 2
MaxRpcDocs == 1

\* Largest max_requests and per_seconds a limiter is constructed with.
MaxRequests == 2
MaxPeriod == 2

\* random.uniform(0, 1) is drawn in steps of 1/JitterSteps; delays are counted
\* in units of 1/JitterSteps second.
JitterSteps == 4

\* config.py:48, 49
RATE_LIMIT_MAX_REQUESTS == 20
RATE_LIMIT_PERIOD_SECONDS == 60

\* config.py:42   CACHE_TTL
CACHE_TTL == 3600
\* api.py:269   @cached("current_gameweek", ttl=600)
CURRENT_GAMEWEEK_TTL == 600
\* The clock is read at multiples of half the default ttl: the 600 s entry
\* is live only at the instant it was stored, a 3600 s entry one step longer.
TickSeconds == CACHE_TTL \div 2

\* ------------------------------------------------------- program constants
\* api.py:105   max_retries: int = 3
DEFAULT_MAX_RETRIES == 3
\* config.py:79
PROXY_MAX_RETRIES == 2
\* api.py:138, 154, 172, 189: the status that triggers proxy failover
FORBIDDEN == 403

\* The coroutines that call _make_request concurrently on the singleton.
Fetches == {"f1", "f2"}

\* max_retries values a call is made with: no retry, and the default.
RetryChoices == {0, DEFAULT_MAX_RETRIES}

VARIABLES
    proxy_enabled,          \* config.PROXY_ENABLED, copied to self.proxy_enabled
    proxy_list,             \* self.proxy_list
    current_proxy_index,    \* self.current_proxy_index
    grants,                 \* completed acquire() calls on self.rate_limiter
    fetch                   \* fetch[f]: the frame of coroutine f in _make_request

\* The variables of the fetch pipeline.
fetchVars == <<proxy_enabled, proxy_list, current_proxy_index, grants, fetch>>

VARIABLES
    returned,               \* what the calls of _get_next_proxy returned, in order
    schema,                 \* self.schema
    boot,                   \* one call of get_bootstrap_static / validate_data
    gameweeks,              \* the list get_gameweeks returns
    gw_result,              \* what get_current_gameweek returned: <<>> or <<entry>>
    now,                    \* the clock the cache reads, in seconds
    store,                  \* cache key -> <<>> or <<entry>>
    prod,                   \* cache key -> the producer run in progress for it
    invoked,                \* cache key -> how often its producer was invoked
    upstream,               \* endpoint -> how many fetches of it were started
    call,                   \* caller -> its call of an accessor
    leader,                 \* cache key -> the caller whose call invoked the
                            \* producer run in progress, or "none"
    rate_limiter,           \* self.rate_limiter and the callers of its acquire()
    sleeper,                \* one run of the direct loop of _make_request,
                            \* with the delays it slept
    completed,              \* the fetches that returned a document, each
                            \* with the time it returned at
    rpc                     \* one JSON-RPC request with what the HTTP
                            \* endpoint and the WebSocket loop answered

cacheVars == <<now, store, prod, invoked, upstream, call, leader>>

\* The variables the fetch pipeline's own steps leave alone.
otherVars == <<returned, schema, boot, gameweeks, gw_result, cacheVars,
              rate_limiter, sleeper, completed, rpc>>

vars == <<proxy_enabled, proxy_list, current_proxy_index, grants, fetch,
          returned, schema, boot, gameweeks, gw_result, cacheVars, rate_limiter, sleeper, completed, rpc>>

\* ------------------------------------------------------------ exceptions
\* An exception object: its class, the HTTP status it carries (0 when it
\* carries none), the route of the attempt that raised it (0 = direct,
\* p > 0 = through proxy p) and that attempt's loop index.
None == [class |-> "None", status |-> 0, via |-> 0, n |-> 0]

HTTPStatusError(s, via, n) ==
    [class |-> "HTTPStatusError", status |-> s, via |-> via, n |-> n]

RequestError(via, n) ==
    [class |-> "RequestError", status |-> 0, via |-> via, n |-> n]

\* response.json() on a body that is not JSON: not an httpx.HTTPError
JSONDecodeError(via, n) ==
    [class |-> "JSONDecodeError", status |-> 0, via |-> via, n |-> n]

\* api.py:131   raise_for_status() raises on 4xx and 5xx: 403, and one
\* other status of each kind
Statuses == {FORBIDDEN, 404, 500}

\* What one HTTP attempt can end in, besides a parsed JSON body.
AttemptErrors(via, n) ==
    {HTTPStatusError(s, via, n) : s \in Statuses}
        \cup {RequestError(via, n), JSONDecodeError(via, n)}

NoResult == [ok |-> FALSE, via |-> 0, n |-> 0]
Json(via, n) == [ok |-> TRUE, via |-> via, n |-> n]

\* ----------------------------------------------------------- config.py
\* config.py:78   PROXY_ROTATION_ENABLED = len(PROXY_LIST) > 0 and PROXY_ENABLED
proxy_rotation_enabled == Len(proxy_list) > 0 /\ proxy_enabled

\* -------------------------------------------------------- _get_next_proxy
\* api.py:82-83: the cursor wraps before the read
WrappedIndex(i) == IF i >= Len(proxy_list) THEN 0 ELSE i

\* api.py:85: proxy_list[current_proxy_index] (Python indexes from 0)
ProxyAt(i) == proxy_list[WrappedIndex(i) + 1]

\* A variant of IndexAfterDraw: the cursor is advanced by two.
IndexAfterDraw_Two(i) == WrappedIndex(i) + 2

\* A variant of IndexAfterDraw: the cursor is not advanced.
IndexAfterDraw_Stuck(i) == WrappedIndex(i)

\* api.py:86
IndexAfterDraw(i) == WrappedIndex(i) + 1

\* ------------------------------------------------------------ the frame
\* Locals of _make_request (pc, max_retries, attempt, last_error,
\* proxy_attempt, proxy, retry), how the call ended (result, raised), and
\* observations of the run: nDirect / nProxy attempts made, drawn: the
\* proxies _get_next_proxy handed to this call, tries: attempts made on the
\* proxy drawn last, perr: the error the except clauses caught from the
\* latest proxy attempt ("forbidden": HTTP 403, "other": any other one,
\* "none": no proxy attempt yet, or the latest one raised nothing they catch).
IdleFrame ==
    [pc |-> "idle", max_retries |-> 0, attempt |-> 0, last_error |-> None,
     proxy_attempt |-> 0, proxy |-> 0, retry |-> 0,
     result |-> NoResult, raised |-> None,
     nDirect |-> 0, nProxy |-> 0, drawn |-> <<>>, tries |-> 0,
     perr |-> "none"]

\* ------------------------------------------------------ cached accessors
\* The accessors of FPLAPI without arguments.
Methods == {"get_bootstrap_static", "get_fixtures", "get_gameweeks",
            "get_current_gameweek", "get_players", "get_teams"}

\* api.py:290-301   get_player_summary(player_id), for two players
PlayerIds == {1, 2}
SummaryMethod(id) ==
    IF id = 1 THEN "get_player_summary(1)" ELSE "get_player_summary(2)"
SummaryMethods == {SummaryMethod(id) : id \in PlayerIds}
IdOf(m) == CHOOSE id \in PlayerIds : SummaryMethod(id) = m

\* api.py:301   f"element-summary/{player_id}/"
SummaryEndpoint(id) ==
    IF id = 1 THEN "element-summary/1/" ELSE "element-summary/2/"

\* A variant of SummaryKey: the player id is not part of the key.
SummaryKey_NoId(id) == "element_summary:1"

\* The key of a player summary: the decorator's prefix (api.py:290) and the
\* player id (spec 4.2, 4.5: element_summary:<id>).
SummaryKey(id) ==
    IF id = 1 THEN "element_summary:1" ELSE "element_summary:2"

Keys == {"bootstrap_static", "fixtures", "gameweeks", "current_gameweek",
         "element_summary:1", "element_summary:2"}
Endpoints == {"bootstrap-static/", "fixtures/"}
                 \cup {SummaryEndpoint(id) : id \in PlayerIds}
Callers == {"c1", "c2"}
NoKey == "none"

\* The outcome of a producer run: the document of fetch number doc, or the
\* error of fetch number doc.  Records that hold a document or an error also
\* name the endpoint it was fetched of.
Outcome(ok, doc) == [ok |-> ok, doc |-> doc]

IdleProd == [pc |-> "idle", ok |-> FALSE, doc |-> 0, of |-> "none"]
IdleCall ==
    [pc |-> "idle", method |-> "get_fixtures", ok |-> FALSE, doc |-> 0,
     of |-> "none", field |-> "none", n |-> 0]

\* The callers of acquire() on the shared limiter.
Acquirers == {"a1", "a2", "a3"}

\* api.py:49-52   RateLimiter(max_requests, per_seconds) as constructed: no
\* grant recorded, nobody waiting.  window holds the age in seconds of each
\* grant of the last per_seconds seconds, queue the waiting callers in the
\* order of their calls.
IdleLimiter(max_requests, per_seconds) ==
    [max_requests |-> max_requests, per_seconds |-> per_seconds,
     window |-> <<>>, queue |-> <<>>, pc |-> [a \in Acquirers |-> "out"]]

\* The cache with no entry and no producer running, at time 0.
ColdCache ==
    /\ now = 0
    /\ store = [k \in Keys |-> <<>>]
    /\ prod = [k \in Keys |-> IdleProd]
    /\ invoked = [k \in Keys |-> 0]
    /\ upstream = [e \in Endpoints |-> 0]
    /\ call = [c \in Callers |-> IdleCall]
    /\ leader = [k \in Keys |-> "none"]

\* api.py:49-52   the limiter of the singleton, with the configured budget
\* api.py:123   the direct loop of _make_request(endpoint, max_retries) as
\* it is entered
IdleSleeper(max_retries) ==
    [max_retries |-> max_retries, attempt |-> 0, pc |-> "out", delay |-> 0,
     waits |-> <<>>]

\* No run of the direct loop is timed.
NoSleeper == sleeper = IdleSleeper(DEFAULT_MAX_RETRIES)

\* web_server.py:460-461   a request object: method and id as
\* request.get() returns them ("None" and <<>> for a missing key), and its
\* params.
IdleRpc ==
    [pc |-> "idle",
     request |-> [method |-> "None", id |-> <<>>,
                  params |-> [shape |-> "absent", uri |-> "None",
                              name |-> "None", arguments |-> "absent"]],
     outcome |-> [kind |-> "returns", data |-> 0, error |-> "None"],
     http |-> <<>>, ws |-> <<>>]

\* No request has been received.
NoRequest == rpc = IdleRpc

\* No fetch has returned.
NothingFetched == completed = {}

ConfiguredLimiter ==
    rate_limiter = IdleLimiter(RATE_LIMIT_MAX_REQUESTS, RATE_LIMIT_PERIOD_SECONDS)

\* ------------------------------------------------- bootstrap documents
\* The highest_score of a phase: the key is absent, null, or an integer.
Absent == [kind |-> "absent", v |-> 0]
Null == [kind |-> "null", v |-> 0]
Score(n) == [kind |-> "int", v |-> n]
Scores == {Absent, Null, Score(0), Score(5)}

\* A bootstrap-static document, as far as get_bootstrap_static looks at it:
\* whether it has the key 'phases', and the highest_score of each phase.
\* The payloads the upstream can send:
Docs ==
    {[has_phases |-> FALSE, phases |-> <<>>]}
        \cup {[has_phases |-> TRUE, phases |-> p] :
                 p \in UNION {[1..k -> Scores] : k \in 0..MaxPhases}}

\* api.py:68-75   self.schema: None (file missing or unreadable, or no 'schema'
\* key), {} (falsy), the static schema (phases required, highest_score an
\* integer), or a value that is not a valid JSON schema.
Schemas == {"None", "empty", "static", "malformed"}

\* The call of get_bootstrap_static / validate_data before it is made.  seen,
\* returned and cached hold no document (<<>>) or one (<<doc>>).
IdleBoot(payload) ==
    [pc |-> "idle", payload |-> payload, fetched |-> FALSE,
     seen |-> <<>>, verdict |-> "none", returned |-> <<>>, raised |-> "None",
     cached |-> <<>>, vres |-> "none"]

Init ==
    /\ proxy_enabled \in BOOLEAN
    /\ proxy_list \in {[i \in 1..k |-> i] : k \in 0..MaxProxies}
    /\ current_proxy_index = 0
    /\ grants = 0
    /\ fetch = [f \in Fetches |-> IdleFrame]
    /\ returned = <<>>
    /\ schema = "None"
    /\ boot = IdleBoot([has_phases |-> FALSE, phases |-> <<>>])
    /\ gameweeks = <<>>
    /\ gw_result = <<>>
    /\ ColdCache
    /\ ConfiguredLimiter
    /\ NoSleeper
    /\ NothingFetched
    /\ NoRequest

\* ------------------------------------------------- _make_request, pieces
\* The frame once the coroutine has left _make_request: its locals are gone.
Ended(fr) ==
    [fr EXCEPT !.attempt = 0, !.last_error = None, !.proxy_attempt = 0,
               !.proxy = 0, !.retry = 0, !.tries = 0]

\* A variant of Return: the body is kept and the loop goes on.
Return_KeepsGoing(fr, via, n) == [fr EXCEPT !.result = Json(via, n)]

\* api.py:132, 169: return the parsed body of this attempt
Return(fr, via, n) ==
    Ended([fr EXCEPT !.pc = "done", !.result = Json(via, n)])

\* An exception leaves _make_request.
Raise(fr, e) ==
    Ended([fr EXCEPT !.pc = "failed", !.raised = e])

\* A variant of RaisedAtExit: the final raise wraps the error in a classified one.
RaisedAtExit_Wrapped(last_error) ==
    [last_error EXCEPT !.class = "ExhaustedRetriesError"]

\* api.py:200-201   raise last_error
RaisedAtExit(last_error) == last_error

\* api.py:77-87   _get_next_proxy(): the proxy returned and the cursor left
GetNextProxy(idx) ==
    IF ~proxy_rotation_enabled
        THEN [proxy |-> 0, idx |-> idx]
        ELSE [proxy |-> ProxyAt(idx), idx |-> IndexAfterDraw(idx)]

\* api.py:157-163   iteration pa of `for proxy_attempt in range(len(proxy_list))`
\* up to its first await (the acquire of retry 0); past the last iteration the
\* code falls through to the final raise (api.py:188-201).
ProxyLoop(fr, idx, pa) ==
    IF pa < Len(proxy_list)
        THEN LET d == GetNextProxy(idx) IN
             IF d.proxy = 0
                 THEN [s |-> Raise(fr, RaisedAtExit(fr.last_error)), idx |-> d.idx]
                 ELSE [s |-> [fr EXCEPT !.pc = "p_acquire",
                                        !.proxy_attempt = pa,
                                        !.proxy = d.proxy,
                                        !.retry = 0,
                                        !.drawn = Append(@, d.proxy),
                                        !.tries = 0],
                       idx |-> d.idx]
        ELSE [s |-> Raise(fr, RaisedAtExit(fr.last_error)), idx |-> idx]

\* A variant of ProxyPhaseTrigger: any failure of the direct phase opens the
\* proxy phase.
ProxyPhaseTrigger_AnyError(last_error) ==
    /\ proxy_rotation_enabled
    /\ last_error # None

\* api.py:154   the condition that opens the proxy phase
ProxyPhaseTrigger(last_error) ==
    /\ proxy_rotation_enabled
    /\ last_error.class = "HTTPStatusError"
    /\ last_error.status = FORBIDDEN

\* A variant of AfterDirectLoop: every fetch starts its rotation at the first
\* proxy.
AfterDirectLoop_FromFirst(fr, idx) ==
    IF ProxyPhaseTrigger(fr.last_error)
        THEN ProxyLoop(fr, 0, 0)
        ELSE [s |-> Raise(fr, RaisedAtExit(fr.last_error)), idx |-> idx]

\* api.py:153-201   what follows the direct loop
AfterDirectLoop(fr, idx) ==
    IF ProxyPhaseTrigger(fr.last_error)
        THEN ProxyLoop(fr, idx, 0)
        ELSE [s |-> Raise(fr, RaisedAtExit(fr.last_error)), idx |-> idx]

\* Variants of DirectLoopHas: the range is one too long, one too short.
DirectLoopHas_OneMore(a, max_retries) == a < max_retries + 2

DirectLoopHas_OneFewer(a, max_retries) == a < max_retries

\* api.py:123   `for attempt in range(max_retries + 1)` has an iteration a
DirectLoopHas(a, max_retries) == a < max_retries + 1

\* api.py:123-124   go to iteration a of the direct loop, or leave the loop
DirectLoop(fr, idx, a) ==
    IF DirectLoopHas(a, fr.max_retries)
        THEN [s |-> [fr EXCEPT !.pc = "d_acquire", !.attempt = a], idx |-> idx]
        ELSE AfterDirectLoop(fr, idx)

\* A variant of DirectBreaks: every 4xx status breaks out of the loop.
DirectBreaks_AnyClientError(e) == e.status \in {FORBIDDEN, 404}

\* A variant of DirectBreaks: the `break` on 403 is missing.
DirectBreaks_Never(e) == FALSE

\* api.py:138-140   a direct HTTPStatusError that breaks out of the loop
DirectBreaks(e) == e.status = FORBIDDEN

\* A variant of DirectBackoff: the sleep also follows the last attempt.
DirectBackoff_AfterLast(attempt, max_retries) == attempt <= max_retries

\* api.py:141, 148   `attempt < max_retries`: sleep before the next iteration
DirectBackoff(attempt, max_retries) == attempt < max_retries

\* api.py:134-151   the except clauses of a direct attempt, e caught
DirectCaught(fr, idx, e) ==
    LET g == [fr EXCEPT !.last_error = e] IN
    IF e.class = "HTTPStatusError" /\ DirectBreaks(e)
        THEN AfterDirectLoop(g, idx)
        ELSE IF DirectBackoff(g.attempt, g.max_retries)
            THEN [s |-> [g EXCEPT !.pc = "d_sleep"], idx |-> idx]
            ELSE DirectLoop(g, idx, g.attempt + 1)

\* A variant of ProxyRetryHas: one more try on every proxy.
ProxyRetryHas_OneMore(r) == r < PROXY_MAX_RETRIES + 1

\* api.py:162   `for retry in range(PROXY_MAX_RETRIES)` has an iteration r
ProxyRetryHas(r) == r < PROXY_MAX_RETRIES

\* A variant of ProxyRetryLoop: a retry on the same proxy is sent without
\* a new acquire().
ProxyRetryLoop_NoAcquire(fr, idx, r) ==
    IF ProxyRetryHas(r)
        THEN [s |-> [fr EXCEPT !.pc = "p_http", !.retry = r], idx |-> idx]
        ELSE ProxyLoop(fr, idx, fr.proxy_attempt + 1)

\* api.py:162-163   go to iteration r of the retry loop on the same proxy,
\* or on to the next proxy
ProxyRetryLoop(fr, idx, r) ==
    IF ProxyRetryHas(r)
        THEN [s |-> [fr EXCEPT !.pc = "p_acquire", !.retry = r], idx |-> idx]
        ELSE ProxyLoop(fr, idx, fr.proxy_attempt + 1)

\* A variant of ProxyBreaks: every HTTP status error moves to the next proxy.
ProxyBreaks_Always(e) == TRUE

\* api.py:172-174   a proxy HTTPStatusError that breaks to the next proxy
ProxyBreaks(e) == e.status = FORBIDDEN

\* api.py:175, 182   `retry < PROXY_MAX_RETRIES - 1`: sleep, then retry
ProxyBackoff(retry) == retry < PROXY_MAX_RETRIES - 1

\* api.py:171-186   the except clauses of a proxy attempt, e caught
\* (last_error is not assigned here)
ProxyCaught(fr, idx, e) ==
    IF e.class = "HTTPStatusError"
        THEN IF ProxyBreaks(e)
                 THEN ProxyLoop(fr, idx, fr.proxy_attempt + 1)
                 ELSE IF ProxyBackoff(fr.retry)
                     THEN [s |-> [fr EXCEPT !.pc = "p_sleep"], idx |-> idx]
                     ELSE ProxyRetryLoop(fr, idx, fr.retry + 1)
        ELSE IF ProxyBackoff(fr.retry)
                 THEN [s |-> [fr EXCEPT !.pc = "p_sleep"], idx |-> idx]
                 ELSE ProxyLoop(fr, idx, fr.proxy_attempt + 1)

\* The except clauses catch httpx.HTTPStatusError and httpx.RequestError only.
IsCaught(e) == e.class \in {"HTTPStatusError", "RequestError"}

\* ---------------------------------------------------------------- actions
Put(f, r) ==
    /\ fetch' = [fetch EXCEPT ![f] = r.s]
    /\ current_proxy_index' = r.idx

\* api.py:105-123   a caller enters _make_request(endpoint, max_retries)
Start(f) ==
    /\ fetch[f].pc = "idle"
    /\ \E m \in RetryChoices :
        Put(f, DirectLoop([IdleFrame EXCEPT !.max_retries = m],
                          current_proxy_index, 0))
    /\ UNCHANGED <<proxy_enabled, proxy_list, grants>>

\* api.py:124, 126-130   acquire() returns and the direct request is sent
DirectAcquire(f) ==
    /\ fetch[f].pc = "d_acquire"
    /\ grants' = grants + 1
    /\ fetch' = [fetch EXCEPT ![f].pc = "d_http"]
    /\ UNCHANGED <<proxy_enabled, proxy_list, current_proxy_index>>

\* api.py:130-132   the direct request returns a body that parses
DirectOk(f) ==
    /\ fetch[f].pc = "d_http"
    /\ LET fr == [fetch[f] EXCEPT !.nDirect = @ + 1] IN
       fetch' = [fetch EXCEPT ![f] = Return(fr, 0, fr.attempt)]
    /\ UNCHANGED <<proxy_enabled, proxy_list, current_proxy_index, grants>>

\* api.py:130-151, 153-163   the direct request fails with e; the code runs
\* on to its next await or out of the function
DirectFail(f) ==
    /\ fetch[f].pc = "d_http"
    /\ \E e \in AttemptErrors(0, fetch[f].attempt) :
        LET fr == [fetch[f] EXCEPT !.nDirect = @ + 1] IN
        IF IsCaught(e)
            THEN Put(f, DirectCaught(fr, current_proxy_index, e))
            ELSE Put(f, [s |-> Raise(fr, e), idx |-> current_proxy_index])
    /\ UNCHANGED <<proxy_enabled, proxy_list, grants>>

\* api.py:144, 151, then 123   the backoff sleep ends
DirectSleepDone(f) ==
    /\ fetch[f].pc = "d_sleep"
    /\ Put(f, DirectLoop(fetch[f], current_proxy_index, fetch[f].attempt + 1))
    /\ UNCHANGED <<proxy_enabled, proxy_list, grants>>

\* api.py:163, 165-167   acquire() returns and the proxied request is sent
ProxyAcquire(f) ==
    /\ fetch[f].pc = "p_acquire"
    /\ grants' = grants + 1
    /\ fetch' = [fetch EXCEPT ![f].pc = "p_http"]
    /\ UNCHANGED <<proxy_enabled, proxy_list, current_proxy_index>>

\* api.py:167-169   the proxied request returns a body that parses
ProxyOk(f) ==
    /\ fetch[f].pc = "p_http"
    /\ LET fr == [fetch[f] EXCEPT !.nProxy = @ + 1, !.tries = @ + 1,
                                  !.perr = "none"] IN
       fetch' = [fetch EXCEPT ![f] = Return(fr, fr.proxy, fr.retry)]
    /\ UNCHANGED <<proxy_enabled, proxy_list, current_proxy_index, grants>>

\* api.py:172   how the except clauses tell proxy errors apart
ProxyErrKind(e) ==
    IF ~IsCaught(e) THEN "none"
    ELSE IF e.class = "HTTPStatusError" /\ e.status = FORBIDDEN THEN "forbidden"
    ELSE "other"

\* api.py:167-186, 157-163, 188-201   the proxied request fails with e
ProxyFail(f) ==
    /\ fetch[f].pc = "p_http"
    /\ \E e \in AttemptErrors(fetch[f].proxy, fetch[f].retry) :
        LET fr == [fetch[f] EXCEPT !.nProxy = @ + 1, !.tries = @ + 1,
                                   !.perr = ProxyErrKind(e)] IN
        IF IsCaught(e)
            THEN Put(f, ProxyCaught(fr, current_proxy_index, e))
            ELSE Put(f, [s |-> Raise(fr, e), idx |-> current_proxy_index])
    /\ UNCHANGED <<proxy_enabled, proxy_list, grants>>

\* api.py:178, 184, then 162   the proxy backoff sleep ends
ProxySleepDone(f) ==
    /\ fetch[f].pc = "p_sleep"
    /\ Put(f, ProxyRetryLoop(fetch[f], current_proxy_index, fetch[f].retry + 1))
    /\ UNCHANGED <<proxy_enabled, proxy_list, grants>>

Next ==
    /\ \E f \in Fetches :
        \/ Start(f)
        \/ DirectAcquire(f)
        \/ DirectOk(f)
        \/ DirectFail(f)
        \/ DirectSleepDone(f)
        \/ ProxyAcquire(f)
        \/ ProxyOk(f)
        \/ ProxyFail(f)
        \/ ProxySleepDone(f)
    /\ UNCHANGED otherVars

Spec == Init /\ [][Next]_vars

\* ------------------------------------------------ one fetch at a time
\* The same client when its callers do not overlap: a call of _make_request
\* starts only when no other call is inside it.
Running(f) == fetch[f].pc \notin {"idle", "done", "failed"}

StartAlone(f) ==
    /\ \A g \in Fetches \ {f} : ~Running(g)
    /\ Start(f)

NextSeq ==
    /\ \E f \in Fetches :
        \/ StartAlone(f)
        \/ DirectAcquire(f)
        \/ DirectOk(f)
        \/ DirectFail(f)
        \/ DirectSleepDone(f)
        \/ ProxyAcquire(f)
        \/ ProxyOk(f)
        \/ ProxyFail(f)
        \/ ProxySleepDone(f)
    /\ UNCHANGED otherVars

SpecSeq == Init /\ [][NextSeq]_vars

\* ------------------------------------------------ every await returns
\* The steps of a call in progress: the return of an acquire(), of an HTTP
\* call or of a sleep, with the code that runs up to the next await.
Step(f) ==
    /\ \/ DirectAcquire(f)
       \/ DirectOk(f)
       \/ DirectFail(f)
       \/ DirectSleepDone(f)
       \/ ProxyAcquire(f)
       \/ ProxyOk(f)
       \/ ProxyFail(f)
       \/ ProxySleepDone(f)
    /\ UNCHANGED otherVars

\* Calls that do not overlap, each await of which returns.
SpecSeqFair == SpecSeq /\ \A f \in Fetches : WF_vars(Step(f))

\* ================================================================ claims
Is403(e) == e.class = "HTTPStatusError" /\ e.status = FORBIDDEN

InProxyPhase(fr) == fr.pc \in {"p_acquire", "p_http", "p_sleep"}

RECURSIVE AttemptsOf(_)
AttemptsOf(S) ==
    IF S = {} THEN 0
    ELSE LET f == CHOOSE x \in S : TRUE IN
         fetch[f].nDirect + fetch[f].nProxy + AttemptsOf(S \ {f})

InFlight == {f \in Fetches : fetch[f].pc \in {"d_http", "p_http"}}

\* C1: once a direct attempt of a fetch has returned 403 (on any try), the
\* fetch makes no further direct attempt; in the step in which the 403
\* arrives the fetch draws its first proxy when rotation is enabled, and
\* fails with no proxy drawn or tried when it is not.
C1_NoDirectAfter403 ==
    [][\A f \in Fetches :
        LET a == fetch[f]
            b == fetch'[f]
        IN  /\ Is403(a.last_error) => b.nDirect = a.nDirect
            /\ ( /\ a.pc = "d_http"
                 /\ \/ Is403(b.last_error)
                    \/ b.pc = "failed" /\ Is403(b.raised) /\ b.raised.via = 0 )
               => IF proxy_rotation_enabled
                     THEN b.pc = "p_acquire" /\ Len(b.drawn) = 1 /\ b.nProxy = 0
                     ELSE b.pc = "failed" /\ b.drawn = <<>> /\ b.nProxy = 0
      ]_vars

\* A 403 on a later direct try, followed by a proxy attempt.
C1_Witness ==
    \E f \in Fetches :
        /\ Is403(fetch[f].last_error)
        /\ fetch[f].nDirect >= 2
        /\ fetch[f].nProxy >= 1

\* C2: a fetch that failed raised the error of the last attempt it made: of
\* its last proxy attempt when it made proxy attempts, of its last direct
\* attempt otherwise.
C2_RaisedIsLatestError ==
    \A f \in Fetches :
        LET fr == fetch[f] IN
        fr.pc = "failed" =>
            IF fr.nProxy > 0
                THEN fr.raised.via = fr.drawn[Len(fr.drawn)]
                ELSE fr.raised.via = 0 /\ fr.raised.n = fr.nDirect - 1

C4_OneGrantPerAttempt ==
    /\ grants = AttemptsOf(Fetches) + Cardinality(InFlight)
    /\ AttemptsOf(Fetches) <= grants

\* Two fetches have drawn on the limiter, one of them for a proxy retry.
C4_Witness ==
    \E f, g \in Fetches :
        /\ f # g
        /\ fetch[f].pc = "p_http" /\ fetch[f].retry = 1
        /\ fetch[g].nDirect >= 1
        /\ grants >= 4

Range(q) == {q[i] : i \in 1..Len(q)}

NoRepeat(q) == \A i, j \in 1..Len(q) : i # j => q[i] # q[j]

\* The failure at the end of the proxy phase: the final raise of last_error.
Exhausted(fr) ==
    fr.pc = "failed" /\ Len(fr.drawn) > 0 /\ fr.raised.class # "JSONDecodeError"

\* C5: in every interleaving of fetches, no proxy is offered twice to one
\* fetch, and a proxy phase that ended as exhausted had offered every
\* configured proxy to that fetch.
C5_EachProxyOfferedOnce ==
    \A f \in Fetches :
        /\ NoRepeat(fetch[f].drawn)
        /\ Exhausted(fetch[f]) => Range(fetch[f].drawn) = Range(proxy_list)

\* C6: a fetch is in its proxy phase only with rotation enabled and the 403
\* of its last direct attempt in last_error; a fetch that failed on a non-403
\* error of a direct attempt drew no proxy and made no proxy attempt.
C6_ProxyOnlyAfterDirect403 ==
    \A f \in Fetches :
        LET fr == fetch[f] IN
        /\ (InProxyPhase(fr) \/ fr.nProxy > 0 \/ Len(fr.drawn) > 0)
              => proxy_rotation_enabled
        /\ InProxyPhase(fr)
              => /\ Is403(fr.last_error)
                 /\ fr.last_error.via = 0
                 /\ fr.last_error.n = fr.nDirect - 1
        /\ (fr.pc = "failed" /\ fr.raised.via = 0 /\ ~Is403(fr.raised))
              => fr.drawn = <<>> /\ fr.nProxy = 0

\* With proxies available, all direct attempts failed on request errors and
\* the fetch failed.
C6_Witness ==
    \E f \in Fetches :
        /\ proxy_rotation_enabled
        /\ fetch[f].pc = "failed"
        /\ fetch[f].raised.class = "RequestError"
        /\ fetch[f].nDirect = DEFAULT_MAX_RETRIES + 1

\* C7: a fetch makes at most max_retries + 1 direct attempts.
C7_DirectAttemptsBounded ==
    \A f \in Fetches : fetch[f].nDirect <= fetch[f].max_retries + 1

\* The fourth direct attempt of a fetch with the default max_retries is out.
C7_Witness ==
    \E f \in Fetches :
        /\ fetch[f].max_retries = DEFAULT_MAX_RETRIES
        /\ fetch[f].pc = "d_http"
        /\ fetch[f].nDirect = DEFAULT_MAX_RETRIES

\* The errors of a direct attempt that the direct loop retries.
Transient(e) ==
    \/ e.class = "RequestError"
    \/ e.class = "HTTPStatusError" /\ e.status # FORBIDDEN

\* C8: a fetch whose failure is a transient error (request error, non-403
\* status) made all max_retries + 1 direct attempts; a fetch that failed with
\* direct attempts left failed on a 403 or on a body that did not parse.
C8_TransientOnlyAfterAllRetries ==
    \A f \in Fetches :
        LET fr == fetch[f] IN
        /\ (fr.pc = "failed" /\ Transient(fr.raised))
              => fr.nDirect = fr.max_retries + 1 /\ fr.raised.n = fr.max_retries
        /\ (fr.pc = "failed" /\ fr.nDirect < fr.max_retries + 1)
              => Is403(fr.raised) \/ fr.raised.class = "JSONDecodeError"
        /\ (Transient(fr.last_error) /\ fr.nDirect < fr.max_retries + 1)
              => fr.pc \in {"d_sleep", "d_acquire", "d_http"}

\* A fetch with the default max_retries failed on a 5xx of its last attempt.
C8_Witness ==
    \E f \in Fetches :
        /\ fetch[f].pc = "failed"
        /\ fetch[f].max_retries = DEFAULT_MAX_RETRIES
        /\ fetch[f].raised = HTTPStatusError(500, 0, DEFAULT_MAX_RETRIES)

\* The proxy after p in the order of proxy_list, wrapping.
Successor(p) == proxy_list[(p % Len(proxy_list)) + 1]

C10_Proxy403MovesOn ==
    \A f \in Fetches :
        LET fr == fetch[f]
            k == Len(fr.drawn)
        IN  /\ (InProxyPhase(fr) /\ fr.perr = "forbidden" /\ fr.tries = 0)
                 => k >= 2 /\ fr.drawn[k] \notin {fr.drawn[i] : i \in 1..(k - 1)}
            /\ (InProxyPhase(fr) /\ fr.perr = "forbidden") => fr.tries = 0
            /\ (Exhausted(fr) /\ fr.perr = "forbidden")
                 => Range(fr.drawn) = Range(proxy_list)

\* ======================================================= the rotator alone
\* _get_next_proxy called again and again on a fresh client, for every pool
\* PROXY_LIST can hold (a URL may be listed twice).
InitRot ==
    /\ proxy_enabled \in BOOLEAN
    /\ proxy_list \in UNION {[1..k -> 1..(MaxProxies + 1)] : k \in 0..MaxProxies}
    /\ current_proxy_index = 0
    /\ grants = 0
    /\ fetch = [f \in Fetches |-> IdleFrame]
    /\ returned = <<>>
    /\ schema = "None"
    /\ boot = IdleBoot([has_phases |-> FALSE, phases |-> <<>>])
    /\ gameweeks = <<>>
    /\ gw_result = <<>>
    /\ ColdCache
    /\ ConfiguredLimiter
    /\ NoSleeper
    /\ NothingFetched
    /\ NoRequest

\* api.py:77-87   one call of _get_next_proxy()
CallGetNextProxy ==
    /\ Len(returned) < MaxDraws
    /\ LET d == GetNextProxy(current_proxy_index) IN
        /\ returned' = Append(returned, d.proxy)
        /\ current_proxy_index' = d.idx
    /\ UNCHANGED <<proxy_enabled, proxy_list, grants, fetch,
                   schema, boot, gameweeks, gw_result, cacheVars, rate_limiter, sleeper, completed, rpc>>

NextRot == CallGetNextProxy

SpecRot == InitRot /\ [][NextRot]_vars

\* C11: with rotation enabled and K >= 1 proxies, the n-th call of
\* _get_next_proxy on a fresh client returns proxy_list[(n-1) mod K]: the
\* first K calls return the K entries in list order and call K+1 returns the
\* first entry again.
C11_RoundRobin ==
    proxy_rotation_enabled =>
        \A n \in 1..Len(returned) :
            returned[n] = proxy_list[((n - 1) % Len(proxy_list)) + 1]

\* K + 1 calls were made on a pool of two different proxies.
C11_Witness ==
    /\ proxy_rotation_enabled
    /\ Len(proxy_list) = 2
    /\ proxy_list[1] # proxy_list[2]
    /\ Len(returned) = 3
    /\ returned = <<proxy_list[1], proxy_list[2], proxy_list[1]>>

\* C12 (one fetch after the other): the first proxy a fetch draws is
\* proxy_list[0] when no fetch drew before and otherwise the successor,
\* wrapping, of the proxy the earlier fetch drew last; and a fetch whose
\* direct attempt returns 403 after every proxy failed in the earlier fetch
\* is still handed a proxy, one that failed there.
C12_CursorPersistsMarksDoNot ==
    [][\A f, g \in Fetches :
        LET a == fetch[f]
            b == fetch'[f]
            o == fetch[g]
        IN  f # g =>
            /\ (a.drawn = <<>> /\ b.drawn # <<>>)
                 => /\ Len(b.drawn) = 1
                    /\ b.drawn[1] = IF o.drawn = <<>>
                                       THEN proxy_list[1]
                                       ELSE Successor(o.drawn[Len(o.drawn)])
            /\ (a.pc = "d_http" /\ Is403(b.last_error) /\ Exhausted(o))
                 => /\ b.pc = "p_acquire"
                    /\ Len(b.drawn) = 1
                    /\ b.drawn[1] \in Range(o.drawn)
      ]_vars

\* Two proxies; the first fetch succeeded through the first one, and the
\* later fetch has drawn the second one.
C12_Witness ==
    \E f, g \in Fetches :
        /\ Len(proxy_list) = 2
        /\ fetch[g].pc = "done" /\ fetch[g].drawn = <<1>>
        /\ fetch[f].pc = "p_http" /\ fetch[f].drawn = <<2>>

\* ============================== get_bootstrap_static and validate_data
\* Python truthiness of a schema value (api.py:214, 219, 243)
Truthy(sch) == sch \notin {"None", "empty"}

\* The static schema on the modelled part of a document.
Conforms(doc) ==
    /\ doc.has_phases
    /\ \A i \in 1..Len(doc.phases) : doc.phases[i].kind = "int"

\* api.py:219   jsonschema.validate(instance, schema): returns, raises
\* ValidationError, or raises SchemaError when the schema itself is invalid
\* (it checks the schema before the instance).
JsonschemaValidate(doc, sch) ==
    IF sch = "malformed" THEN "SchemaError"
    ELSE IF sch = "empty" \/ Conforms(doc) THEN "ok"
    ELSE "ValidationError"

\* api.py:203-223   validate_data(data, schema): "True", "False", or the
\* exception that leaves it (only ValidationError is caught)
ValidateData(doc, schema_arg, self_schema) ==
    IF ~Truthy(schema_arg) /\ ~Truthy(self_schema)
        THEN "True"
        ELSE LET r == JsonschemaValidate(
                        doc, IF Truthy(schema_arg) THEN schema_arg ELSE self_schema)
             IN  IF r = "ok" THEN "True"
                 ELSE IF r = "ValidationError" THEN "False"
                 ELSE r

\* A variant of NormalizeScore: only an explicit null is coerced.
NormalizeScore_NullOnly(sc) == IF sc.kind = "null" THEN Score(0) ELSE sc

\* api.py:239-240   phase.get('highest_score') is None  ->  0
NormalizeScore(sc) == IF sc.kind \in {"absent", "null"} THEN Score(0) ELSE sc

\* api.py:237-240   the fix-up loop over data['phases']
Normalize(doc) ==
    IF doc.has_phases
        THEN [doc EXCEPT !.phases =
                 [i \in 1..Len(doc.phases) |-> NormalizeScore(doc.phases[i])]]
        ELSE doc

InitBoot ==
    /\ proxy_enabled = FALSE
    /\ proxy_list = <<>>
    /\ current_proxy_index = 0
    /\ grants = 0
    /\ fetch = [f \in Fetches |-> IdleFrame]
    /\ returned = <<>>
    /\ schema \in Schemas
    /\ boot \in {IdleBoot(p) : p \in Docs}
    /\ gameweeks = <<>>
    /\ gw_result = <<>>
    /\ ColdCache
    /\ ConfiguredLimiter
    /\ NoSleeper
    /\ NothingFetched
    /\ NoRequest

\* api.py:234   get_bootstrap_static is entered and awaits _make_request
BootCall ==
    /\ boot.pc = "idle"
    /\ boot' = [boot EXCEPT !.pc = "fetching"]
    /\ UNCHANGED <<fetchVars, returned, schema, gameweeks, gw_result, cacheVars, rate_limiter, sleeper, completed, rpc>>

\* api.py:234   _make_request raises: the error leaves get_bootstrap_static
BootFetchFail ==
    /\ boot.pc = "fetching"
    /\ boot' = [boot EXCEPT !.pc = "failed", !.raised = "fetch"]
    /\ UNCHANGED <<fetchVars, returned, schema, gameweeks, gw_result, cacheVars, rate_limiter, sleeper, completed, rpc>>

\* @cached("bootstrap_static") (api.py:225): the decorator stores the value
\* the wrapped coroutine returned under its key (spec 4.2, getOrCompute).
CacheStore(b, data) == [b EXCEPT !.cached = <<data>>]

\* api.py:243-246   `if self.schema: self.validate_data(data)`, `return data`
ValidateAndReturn(b, data) ==
    IF Truthy(schema)
        THEN LET v == ValidateData(data, "None", schema) IN
             IF v \in {"True", "False"}
                 THEN CacheStore([b EXCEPT !.pc = "done", !.seen = <<data>>,
                                           !.verdict = v, !.returned = <<data>>],
                                 data)
                 ELSE [b EXCEPT !.pc = "failed", !.seen = <<data>>,
                                !.raised = v]
        ELSE CacheStore([b EXCEPT !.pc = "done", !.returned = <<data>>], data)

\* api.py:234-246   _make_request returns the payload
BootFetchOk ==
    /\ boot.pc = "fetching"
    /\ boot' = ValidateAndReturn([boot EXCEPT !.fetched = TRUE],
                                 Normalize(boot.payload))
    /\ UNCHANGED <<fetchVars, returned, schema, gameweeks, gw_result, cacheVars, rate_limiter, sleeper, completed, rpc>>

\* api.py:203-223   a direct call validate_data(payload, schema_arg)
ValidateCall ==
    /\ boot.vres = "none"
    /\ \E arg \in Schemas :
        boot' = [boot EXCEPT !.vres = ValidateData(boot.payload, arg, schema)]
    /\ UNCHANGED <<fetchVars, returned, schema, gameweeks, gw_result, cacheVars, rate_limiter, sleeper, completed, rpc>>

NextBoot ==
    \/ BootCall
    \/ BootFetchFail
    \/ BootFetchOk
    \/ ValidateCall

SpecBoot == InitBoot /\ [][NextBoot]_vars

\* C13: the document get_bootstrap_static returns, and the one it hands to
\* validation and to the cache, is the payload with highest_score = 0 in
\* every phase where the payload had it absent or null and every other
\* phase unchanged; validation never sees a document that is not normalized.
C13_HighestScoreCoerced ==
    LET Fixed(doc) ==
            /\ doc.has_phases = boot.payload.has_phases
            /\ Len(doc.phases) = Len(boot.payload.phases)
            /\ \A i \in 1..Len(doc.phases) :
                  IF boot.payload.phases[i].kind \in {"absent", "null"}
                      THEN doc.phases[i] = Score(0)
                      ELSE doc.phases[i] = boot.payload.phases[i]
    IN  /\ \A i \in 1..Len(boot.seen) : Fixed(boot.seen[i])
        /\ \A i \in 1..Len(boot.returned) : Fixed(boot.returned[i])
        /\ \A i \in 1..Len(boot.cached) : Fixed(boot.cached[i])
        /\ boot.pc = "done" => Len(boot.returned) = 1 /\ boot.cached = boot.returned

\* A payload with a null, an absent and a set highest_score was validated
\* and returned.
C13_Witness ==
    /\ boot.pc = "done"
    /\ Len(boot.seen) = 1
    /\ \E i, j \in 1..Len(boot.payload.phases) :
          /\ boot.payload.phases[i].kind \in {"null", "absent"}
          /\ boot.payload.phases[j] = Score(5)

\* C14: whenever the upstream fetch succeeded, get_bootstrap_static has
\* returned and cached the normalized document, whatever validation did.
C14_ValidationAdvisory ==
    boot.fetched =>
        /\ boot.pc = "done"
        /\ boot.raised = "None"
        /\ boot.returned = <<Normalize(boot.payload)>>
        /\ boot.cached = boot.returned

\* C15: validate_data returns True or False for every document and schema;
\* no exception leaves it.
C15_ValidateNeverRaises ==
    boot.vres \in {"none", "True", "False"}

\* ================================================ get_current_gameweek
\* A flag of a gameweek entry: the key is absent, false or true.
Flags == {"absent", "false", "true"}

\* The gameweek lists: entry i has id i and any two flags.
GameweekLists ==
    UNION {{[i \in 1..k |-> [id |-> i, is_current |-> c[i], is_next |-> n[i]]] :
                c \in [1..k -> Flags], n \in [1..k -> Flags]} :
           k \in 0..MaxGameweeks}

\* {} (api.py:288): an entry with no id and no flag
EmptyDict == [id |-> 0, is_current |-> "absent", is_next |-> "absent"]

\* gw.get(key, False) as a condition (api.py:279, 284)
Get(flag) == flag = "true"

\* api.py:278-280   the first entry from position i on with is_current set,
\* <<>> when the loop falls through
RECURSIVE FirstCurrent(_, _)
FirstCurrent(L, i) ==
    IF i > Len(L) THEN <<>>
    ELSE IF Get(L[i].is_current) THEN <<L[i]>>
    ELSE FirstCurrent(L, i + 1)

\* api.py:283-285   the same for is_next
RECURSIVE FirstNext(_, _)
FirstNext(L, i) ==
    IF i > Len(L) THEN <<>>
    ELSE IF Get(L[i].is_next) THEN <<L[i]>>
    ELSE FirstNext(L, i + 1)

\* A variant of GetCurrentGameweek: one pass, the first entry flagged either way.
RECURSIVE FirstFlagged(_, _)
FirstFlagged(L, i) ==
    IF i > Len(L) THEN <<>>
    ELSE IF Get(L[i].is_current) \/ Get(L[i].is_next) THEN <<L[i]>>
    ELSE FirstFlagged(L, i + 1)

GetCurrentGameweek_OnePass(L) ==
    IF FirstFlagged(L, 1) # <<>> THEN FirstFlagged(L, 1)[1]
    ELSE IF Len(L) > 0 THEN L[1]
    ELSE EmptyDict

\* api.py:277-288   get_current_gameweek over the list L
GetCurrentGameweek(L) ==
    IF FirstCurrent(L, 1) # <<>> THEN FirstCurrent(L, 1)[1]
    ELSE IF FirstNext(L, 1) # <<>> THEN FirstNext(L, 1)[1]
    ELSE IF Len(L) > 0 THEN L[1]
    ELSE EmptyDict

InitGw ==
    /\ proxy_enabled = FALSE
    /\ proxy_list = <<>>
    /\ current_proxy_index = 0
    /\ grants = 0
    /\ fetch = [f \in Fetches |-> IdleFrame]
    /\ returned = <<>>
    /\ schema = "None"
    /\ boot = IdleBoot([has_phases |-> FALSE, phases |-> <<>>])
    /\ gameweeks \in GameweekLists
    /\ gw_result = <<>>
    /\ ColdCache
    /\ ConfiguredLimiter
    /\ NoSleeper
    /\ NothingFetched
    /\ NoRequest

\* api.py:277-288   get_gameweeks has returned the list; the rest of
\* get_current_gameweek runs to its return
CallGetCurrentGameweek ==
    /\ gw_result = <<>>
    /\ gw_result' = <<GetCurrentGameweek(gameweeks)>>
    /\ UNCHANGED <<fetchVars, returned, schema, boot, gameweeks, cacheVars, rate_limiter, sleeper, completed, rpc>>

NextGw == CallGetCurrentGameweek

SpecGw == InitGw /\ [][NextGw]_vars

Key(m) ==
    CASE m = "get_bootstrap_static" -> "bootstrap_static"
      [] m = "get_fixtures" -> "fixtures"
      [] m = "get_gameweeks" -> "gameweeks"
      [] m = "get_current_gameweek" -> "current_gameweek"
      [] m \in SummaryMethods -> SummaryKey(IdOf(m))
      [] OTHER -> NoKey

MethodOf(k) == CHOOSE m \in Methods \cup SummaryMethods : Key(m) = k

Fetches_(e) == [fetch |-> e, method |-> ""]
Delegates(m) == [fetch |-> "", method |-> m]

\* A variant of Awaits: get_gameweeks fetches bootstrap-static itself.
Awaits_GameweeksFetch(m) ==
    CASE m = "get_bootstrap_static" -> Fetches_("bootstrap-static/")
      [] m = "get_fixtures" -> Fetches_("fixtures/")
      [] m = "get_gameweeks" -> Fetches_("bootstrap-static/")
      [] m = "get_current_gameweek" -> Delegates("get_gameweeks")
      [] OTHER -> Delegates("get_bootstrap_static")

\* A variant of Awaits: get_players goes through get_gameweeks.
Awaits_PlayersViaGameweeks(m) ==
    CASE m = "get_bootstrap_static" -> Fetches_("bootstrap-static/")
      [] m = "get_fixtures" -> Fetches_("fixtures/")
      [] m = "get_gameweeks" -> Delegates("get_bootstrap_static")
      [] m = "get_current_gameweek" -> Delegates("get_gameweeks")
      [] m = "get_players" -> Delegates("get_gameweeks")
      [] OTHER -> Delegates("get_bootstrap_static")

\* What the body of each accessor awaits: a fetch of an endpoint
\* (api.py:234, 256, 301) or another accessor (api.py:266, 277, 310, 320).
Awaits(m) ==
    CASE m = "get_bootstrap_static" -> Fetches_("bootstrap-static/")
      [] m = "get_fixtures" -> Fetches_("fixtures/")
      [] m = "get_gameweeks" -> Delegates("get_bootstrap_static")
      [] m = "get_current_gameweek" -> Delegates("get_gameweeks")
      [] m \in SummaryMethods -> Fetches_(SummaryEndpoint(IdOf(m)))
      [] OTHER -> Delegates("get_bootstrap_static")

\* What each accessor returns of the document it is built from
\* (api.py:246, 256, 267, 280-288, 311, 321).
Field(m) ==
    CASE m = "get_bootstrap_static" -> "document"
      [] m = "get_fixtures" -> "document"
      [] m \in SummaryMethods -> "document"
      [] m = "get_gameweeks" -> "events"
      [] m = "get_current_gameweek" -> "current"
      [] m = "get_players" -> "elements"
      [] OTHER -> "teams"

\* A variant of Ttl: the ttl argument of current_gameweek is dropped.
Ttl_NoOverride(k) == CACHE_TTL

\* The ttl of each key: api.py:269 for current_gameweek, CACHE_TTL otherwise.
Ttl(k) == IF k = "current_gameweek" THEN CURRENT_GAMEWEEK_TTL ELSE CACHE_TTL

\* The key a caller of m ends up waiting on.
TargetKey(m) == IF Key(m) = NoKey THEN Key(Awaits(m).method) ELSE Key(m)

\* The key the producer of k waits on, when it delegates.
DepKey(k) == Key(Awaits(MethodOf(k)).method)

\* --------------------------------------------- getOrCompute (spec 4.2)
St == [store |-> store, prod |-> prod, invoked |-> invoked, upstream |-> upstream]

\* "returns the live entry's value if now < expiresAt"
Live_Inclusive(st, k) == st.store[k] # <<>> /\ now <= st.store[k][1].expiresAt
Live(st, k) == st.store[k] # <<>> /\ now < st.store[k][1].expiresAt

\* An in-flight marker exists for k; a caller joins it.
Joins_Never(st, k) == FALSE
Joins(st, k) == st.prod[k].pc # "idle"

\* "stores the result with expiresAt = now + ttl"
Entry(doc, of, ttl) ==
    [doc |-> doc, of |-> of, createdAt |-> now, expiresAt |-> now + ttl]

\* The part of a call of m that runs before its first suspension: down the
\* chain of accessors, each level returns its live entry, joins the
\* producer in flight, or invokes its producer.
RECURSIVE Demand(_, _)
Demand(m, st) ==
    IF Key(m) = NoKey THEN Demand(Awaits(m).method, st)
    ELSE LET k == Key(m) IN
         IF Live(st, k) \/ Joins(st, k) THEN st
         ELSE LET st1 == [st EXCEPT !.invoked[k] = @ + 1] IN
              IF Awaits(m).fetch # ""
                  THEN LET e == Awaits(m).fetch IN
                       [st1 EXCEPT !.upstream[e] = @ + 1,
                                   !.prod[k] = [pc |-> "fetching", ok |-> FALSE,
                                                doc |-> st.upstream[e] + 1,
                                                of |-> e]]
                  ELSE LET k2 == Key(Awaits(m).method)
                           st2 == Demand(Awaits(m).method, st1)
                       IN  IF Live(st2, k2)
                               THEN [st2 EXCEPT !.store[k] =
                                        <<Entry(st2.store[k2][1].doc,
                                                st2.store[k2][1].of, Ttl(k))>>]
                               ELSE [st2 EXCEPT !.prod[k] =
                                        [pc |-> "waiting", ok |-> FALSE, doc |-> 0,
                                         of |-> "none"]]

\* A variant of Complete: the outcome is stored whether it is a value or an
\* error.
Complete_StoresFailure(k, o) ==
    /\ store' = [store EXCEPT ![k] = <<Entry(o.doc, prod[k].of, Ttl(k))>>]
    /\ prod' = [p \in Keys |->
                  IF p = k THEN IdleProd
                  ELSE IF prod[p].pc = "waiting" /\ DepKey(p) = k
                      THEN [pc |-> "ready", ok |-> o.ok, doc |-> o.doc,
                            of |-> prod[k].of]
                      ELSE prod[p]]
    /\ call' = [c \in Callers |->
                  IF call[c].pc = "waiting" /\ TargetKey(call[c].method) = k
                      THEN [call[c] EXCEPT !.pc = "done", !.ok = o.ok,
                                           !.doc = o.doc, !.of = prod[k].of,
                                           !.field = Field(call[c].method)]
                      ELSE call[c]]
    /\ leader' = [leader EXCEPT ![k] = "none"]
    /\ UNCHANGED <<now, invoked, upstream>>

\* The producer of k ends with outcome o: a value is stored, the marker is
\* destroyed, every waiting caller receives o, and every producer waiting
\* on k is made ready to resume with o.
Complete(k, o) ==
    /\ store' = IF o.ok THEN [store EXCEPT ![k] = <<Entry(o.doc, prod[k].of, Ttl(k))>>]
                        ELSE store
    /\ prod' = [p \in Keys |->
                  IF p = k THEN IdleProd
                  ELSE IF prod[p].pc = "waiting" /\ DepKey(p) = k
                      THEN [pc |-> "ready", ok |-> o.ok, doc |-> o.doc,
                            of |-> prod[k].of]
                      ELSE prod[p]]
    /\ call' = [c \in Callers |->
                  IF call[c].pc = "waiting" /\ TargetKey(call[c].method) = k
                      THEN [call[c] EXCEPT !.pc = "done", !.ok = o.ok,
                                           !.doc = o.doc, !.of = prod[k].of,
                                           !.field = Field(call[c].method)]
                      ELSE call[c]]
    /\ leader' = [leader EXCEPT ![k] = "none"]
    /\ UNCHANGED <<now, invoked, upstream>>

quietVars ==
    <<fetchVars, returned, schema, boot, gameweeks, gw_result, rate_limiter, sleeper, completed, rpc>>

InitCache ==
    /\ proxy_enabled = FALSE
    /\ proxy_list = <<>>
    /\ current_proxy_index = 0
    /\ grants = 0
    /\ fetch = [f \in Fetches |-> IdleFrame]
    /\ returned = <<>>
    /\ schema = "None"
    /\ boot = IdleBoot([has_phases |-> FALSE, phases |-> <<>>])
    /\ gameweeks = <<>>
    /\ gw_result = <<>>
    /\ ColdCache
    /\ ConfiguredLimiter
    /\ NoSleeper
    /\ NothingFetched
    /\ NoRequest

\* Caller c calls accessor m; the call runs to its first suspension or to
\* its return.
Invoke(c, m) ==
    /\ call[c].pc # "waiting"
    /\ \E st \in {Demand(m, St)}, tk \in {TargetKey(m)} :
           /\ store' = st.store
           /\ prod' = st.prod
           /\ invoked' = st.invoked
           /\ upstream' = st.upstream
           /\ leader' = [k \in Keys |->
                           IF st.invoked[k] # invoked[k] THEN c ELSE leader[k]]
           /\ call' = [call EXCEPT ![c] =
                         IF Live(st, tk)
                             THEN [pc |-> "done", method |-> m, ok |-> TRUE,
                                   doc |-> st.store[tk][1].doc,
                                   of |-> st.store[tk][1].of, field |-> Field(m),
                                   n |-> call[c].n + 1]
                             ELSE [pc |-> "waiting", method |-> m, ok |-> FALSE,
                                   doc |-> 0, of |-> "none", field |-> "none",
                                   n |-> call[c].n + 1]]
    /\ UNCHANGED <<now, quietVars>>

\* A caller makes at most MaxCalls calls.
Call(c, m) ==
    /\ call[c].n < MaxCalls
    /\ Invoke(c, m)

\* api.py:234, 256   _make_request returns the document to the producer of k
FetchOk(k) ==
    /\ prod[k].pc = "fetching"
    /\ Complete(k, Outcome(TRUE, prod[k].doc))
    /\ UNCHANGED quietVars

\* api.py:234, 256   _make_request raises in the producer of k
FetchFail(k) ==
    /\ prod[k].pc = "fetching"
    /\ Complete(k, Outcome(FALSE, prod[k].doc))
    /\ UNCHANGED quietVars

\* api.py:266-267, 277-288   the producer of k resumes with the outcome of
\* the accessor it awaited and returns its projection, or the error
Resume(k) ==
    /\ prod[k].pc = "ready"
    /\ Complete(k, Outcome(prod[k].ok, prod[k].doc))
    /\ UNCHANGED quietVars

\* Time passes.
Tick ==
    /\ now < MaxTicks * TickSeconds
    /\ now' = now + TickSeconds
    /\ UNCHANGED <<store, prod, invoked, upstream, call, leader, quietVars>>

\* A variant of Cancel: the producer runs the cancelled caller led are
\* abandoned with it, their markers left in place.
Cancel_AbandonsProducer(c) ==
    /\ call[c].pc = "waiting"
    /\ call' = [call EXCEPT ![c].pc = "cancelled"]
    /\ prod' = [k \in Keys |->
                  IF leader[k] = c /\ prod[k].pc # "idle"
                      THEN [prod[k] EXCEPT !.pc = "abandoned"]
                      ELSE prod[k]]
    /\ UNCHANGED <<now, store, invoked, upstream, leader, quietVars>>

\* Caller c abandons its call while it waits (spec 5, cancellation): the
\* producer runs it led continue without it.
Cancel(c) ==
    /\ call[c].pc = "waiting"
    /\ call' = [call EXCEPT ![c].pc = "cancelled"]
    /\ UNCHANGED <<now, store, prod, invoked, upstream, leader, quietVars>>

NextCache ==
    \/ \E c \in Callers, m \in Methods : Call(c, m)
    \/ \E k \in Keys : FetchOk(k)
    \/ \E k \in Keys : FetchFail(k)
    \/ \E k \in Keys : Resume(k)
    \/ Tick

SpecCache == InitCache /\ [][NextCache]_vars

\* The player summaries alone: callers of get_player_summary for either
\* player, their fetches, and time.
NextSummary ==
    \/ \E c \in Callers, m \in SummaryMethods : Call(c, m)
    \/ \E k \in Keys : FetchOk(k)
    \/ \E k \in Keys : FetchFail(k)
    \/ Tick

SpecSummary == InitCache /\ [][NextSummary]_vars

\* The first call of caller c.
CallOnce(c, m) ==
    /\ call[c].n = 0
    /\ Call(c, m)

\* The cache with callers that call once and may abandon their call, at a
\* fixed time.  Every upstream fetch returns or raises, and every producer
\* that was made ready resumes.
NextCancel ==
    \/ \E c \in Callers, m \in Methods : CallOnce(c, m)
    \/ \E k \in Keys : FetchOk(k)
    \/ \E k \in Keys : FetchFail(k)
    \/ \E k \in Keys : Resume(k)
    \/ \E c \in Callers : Cancel(c)

SpecCancel ==
    /\ InitCache
    /\ [][NextCancel]_vars
    /\ \A k \in Keys : WF_vars(FetchOk(k) \/ FetchFail(k))
    /\ \A k \in Keys : WF_vars(Resume(k))

\* Caller c makes a call in this step.
Calls(c) == call'[c] # call[c] /\ call[c].pc # "waiting"

\* Caller c is waiting for the producer of k.
WaitsOn(c, k) == call[c].pc = "waiting" /\ TargetKey(call[c].method) = k

\* C17: only a call starts a fetch of bootstrap-static; while one is in
\* flight no step starts another; and a call of any bootstrap-derived
\* accessor on a cold cache with none in flight starts exactly one.
C17_OneBootstrapFetch ==
    [][LET b == upstream["bootstrap-static/"]
           family == {"bootstrap_static", "gameweeks", "current_gameweek"}
           cold == \A k \in family :
                     /\ prod[k].pc = "idle"
                     /\ store[k] = <<>> \/ now >= store[k][1].expiresAt
       IN  /\ upstream'["bootstrap-static/"] \in {b, b + 1}
           /\ prod["bootstrap_static"].pc = "fetching"
                 => upstream'["bootstrap-static/"] = b
           /\ (\A c \in Callers : ~Calls(c))
                 => upstream'["bootstrap-static/"] = b
           /\ \A c \in Callers :
                 (Calls(c) /\ call'[c].method # "get_fixtures" /\ cold)
                     => upstream'["bootstrap-static/"] = b + 1]_vars

\* Two different derived accessors wait on the one fetch of a cold cache.
C17_Witness ==
    /\ call["c1"].pc = "waiting" /\ call["c1"].method = "get_current_gameweek"
    /\ call["c2"].pc = "waiting" /\ call["c2"].method = "get_players"
    /\ upstream["bootstrap-static/"] = 1
    /\ prod["bootstrap_static"].pc = "fetching"

\* C18: a call of get_players or get_teams touches no key other than
\* bootstrap_static; it returns from the bootstrap entry while that entry
\* is live and waits for a bootstrap fetch once it is not; and what it
\* returns is the elements (teams) field of the bootstrap document of that
\* moment.
C18_PlayersTeamsProjectBootstrap ==
    [][\A c \in Callers :
        LET bs == "bootstrap_static"
            m == call'[c].method
            field == IF m = "get_players" THEN "elements" ELSE "teams"
        IN  /\ (Calls(c) /\ m \in {"get_players", "get_teams"}) =>
                /\ \A k \in Keys \ {bs} :
                      /\ store'[k] = store[k]
                      /\ prod'[k] = prod[k]
                      /\ invoked'[k] = invoked[k]
                /\ IF store[bs] # <<>> /\ now < store[bs][1].expiresAt
                       THEN /\ call'[c].pc = "done" /\ call'[c].ok
                            /\ call'[c].doc = store[bs][1].doc
                            /\ call'[c].field = field
                            /\ upstream' = upstream /\ store' = store
                       ELSE /\ call'[c].pc = "waiting"
                            /\ prod'[bs].pc = "fetching"
            /\ (call[c].pc = "waiting" /\ call'[c].pc = "done"
                  /\ m \in {"get_players", "get_teams"}) =>
                /\ call'[c].field = field
                /\ prod[bs].pc = "fetching" /\ call'[c].doc = prod[bs].doc
                /\ call'[c].ok => store'[bs] # <<>> /\ call'[c].doc = store'[bs][1].doc
                /\ ~call'[c].ok => store'[bs] = store[bs]]_vars

\* get_players returned the elements of a bootstrap document fetched by
\* another caller, and only the bootstrap key has an entry.
C18_Witness ==
    /\ call["c1"].pc = "done" /\ call["c1"].method = "get_bootstrap_static"
    /\ call["c2"].pc = "done" /\ call["c2"].method = "get_players"
    /\ call["c2"].ok /\ call["c2"].field = "elements"
    /\ store["bootstrap_static"] # <<>>
    /\ call["c2"].doc = store["bootstrap_static"][1].doc
    /\ \A k \in Keys \ {"bootstrap_static"} : store[k] = <<>> /\ invoked[k] = 0
    /\ upstream["bootstrap-static/"] = 1

\* C19: while the producer of a key is in flight no call invokes it again;
\* a call on a cold key with none in flight invokes it once; and all
\* callers waiting on the key receive the same outcome in the same step.
C19_Singleflight ==
    [][\A k \in Keys :
        /\ invoked'[k] \in {invoked[k], invoked[k] + 1}
        /\ prod[k].pc # "idle" => invoked'[k] = invoked[k]
        /\ \A c \in Callers :
              (/\ Calls(c) /\ Key(call'[c].method) = k
               /\ prod[k].pc = "idle"
               /\ store[k] = <<>> \/ now >= store[k][1].expiresAt)
                  => invoked'[k] = invoked[k] + 1
        /\ \A c, d \in Callers :
              (WaitsOn(c, k) /\ WaitsOn(d, k)) =>
                  /\ call'[c].pc = "done" <=> call'[d].pc = "done"
                  /\ call'[c].pc = "done" =>
                        /\ call'[c].ok = call'[d].ok
                        /\ call'[c].doc = call'[d].doc
                        /\ prod[k].pc # "idle" /\ prod'[k].pc = "idle"]_vars

\* Two callers of get_fixtures received the error of the one fetch.
C19_Witness ==
    /\ \A c \in Callers :
          /\ call[c].pc = "done" /\ call[c].method = "get_fixtures"
          /\ ~call[c].ok /\ call[c].doc = 1
    /\ invoked["fixtures"] = 1
    /\ upstream["fixtures/"] = 1
    /\ store["fixtures"] = <<>>

\* C20: an entry is stamped with the time of the success that stored it;
\* a call for its key before that time plus the key's ttl (600 s for
\* current_gameweek, CACHE_TTL otherwise) returns the stored value and
\* invokes no producer; the first call from that time on invokes the
\* producer of the key again.
C20_LiveUntilTtl ==
    [][/\ \A k \in Keys : store'[k] # store[k] => store'[k][1].createdAt = now
       /\ \A c \in Callers : \A k \in Keys :
            (Calls(c) /\ Key(call'[c].method) = k /\ store[k] # <<>>) =>
                LET e == store[k][1]
                    ttl == IF k = "current_gameweek" THEN CURRENT_GAMEWEEK_TTL
                                                     ELSE CACHE_TTL
                IN  IF now < e.createdAt + ttl
                        THEN /\ invoked' = invoked /\ upstream' = upstream
                             /\ store' = store
                             /\ call'[c].pc = "done" /\ call'[c].ok
                             /\ call'[c].doc = e.doc
                        ELSE prod[k].pc = "idle" => invoked'[k] = invoked[k] + 1]_vars

\* The fixtures entry stored at time 0 was replaced by a second fetch made
\* once CACHE_TTL had passed.
C20_Witness ==
    /\ store["fixtures"] # <<>>
    /\ store["fixtures"][1].doc = 2
    /\ store["fixtures"][1].createdAt = CACHE_TTL
    /\ invoked["fixtures"] = 2
    /\ call["c1"].pc = "done" /\ call["c1"].doc = 1 /\ call["c1"].ok

\* C21: when the producer of a key ends in failure (a waiter receives an
\* error), the entry of the key is left as it was, every caller and every
\* producer waiting on the key receives the failure, and a call for the key
\* made after a caller received a failure invokes the producer again: the
\* caller waits for the new run, or has its value at once when the run
\* needed no fetch.
C21_FailuresNotCached ==
    [][\A k \in Keys :
        LET ends == prod[k].pc # "idle" /\ prod'[k].pc = "idle"
            waiters == {c \in Callers : WaitsOn(c, k)}
            parents == {p \in Keys \ {k} : prod[p].pc = "waiting" /\ DepKey(p) = k}
            failed == \/ \E c \in waiters : call'[c].pc = "done" /\ ~call'[c].ok
                      \/ \E p \in parents : prod'[p].pc = "ready" /\ ~prod'[p].ok
        IN  /\ (ends /\ failed) =>
                /\ store'[k] = store[k]
                /\ \A c \in waiters : call'[c].pc = "done" /\ ~call'[c].ok
                /\ \A p \in parents : prod'[p].pc = "ready" /\ ~prod'[p].ok
            /\ \A c \in Callers :
                  (/\ Calls(c) /\ Key(call'[c].method) = k
                   /\ \E d \in Callers :
                         /\ call[d].pc = "done" /\ ~call[d].ok
                         /\ Key(call[d].method) = k
                   /\ store[k] = <<>> /\ prod[k].pc = "idle")
                      => /\ invoked'[k] = invoked[k] + 1
                         /\ \/ call'[c].pc = "waiting"
                            \/ call'[c].pc = "done" /\ call'[c].ok]_vars

\* A fetch of bootstrap-static failed, nothing was stored, and the next call
\* fetched again and got the second document.
C21_Witness ==
    /\ call["c1"].pc = "done" /\ call["c1"].method = "get_bootstrap_static"
    /\ ~call["c1"].ok /\ call["c1"].doc = 1
    /\ call["c2"].pc = "done" /\ call["c2"].method = "get_bootstrap_static"
    /\ call["c2"].ok /\ call["c2"].doc = 2
    /\ invoked["bootstrap_static"] = 2
    /\ store["bootstrap_static"] # <<>> /\ store["bootstrap_static"][1].doc = 2

\* C22: once the caller that led the producer run of a key is cancelled,
\* every caller waiting on the key still comes to an end of its wait, and
\* the marker of the key is destroyed.
C22_CancelledLeaderBlocksNobody ==
    /\ \A c \in Callers : \A k \in Keys :
          (/\ WaitsOn(c, k)
           /\ leader[k] \in Callers \ {c}
           /\ call[leader[k]].pc = "cancelled")
              ~> (call[c].pc \in {"done", "cancelled"})
    /\ \A k \in Keys :
          (/\ prod[k].pc # "idle"
           /\ leader[k] \in Callers
           /\ call[leader[k]].pc = "cancelled")
              ~> (prod[k].pc = "idle")

\* c1 leads the fetch of bootstrap-static and was cancelled during it,
\* while c2, which had joined, waits.
C22_Witness ==
    /\ call["c1"].pc = "cancelled" /\ call["c1"].method = "get_bootstrap_static"
    /\ leader["bootstrap_static"] = "c1"
    /\ prod["bootstrap_static"].pc = "fetching"
    /\ call["c2"].pc = "waiting" /\ call["c2"].method = "get_players"

\* ====================================== RateLimiter.acquire (spec 4.1)
\* "until issuing one more request would not exceed maxRequests occurrences
\* within any trailing periodSeconds window"
HasCapacity_ShortWindow(rl) ==
    Len(SelectSeq(rl.window, LAMBDA age : age < rl.per_seconds - 1))
        < rl.max_requests
HasCapacity(rl) ==
    Len(SelectSeq(rl.window, LAMBDA age : age < rl.per_seconds))
        < rl.max_requests

\* The waiting caller that is granted next: the one that called first.
NextGranted_Any(rl) == {rl.queue[i] : i \in 1..Len(rl.queue)}
NextGranted(rl) == IF rl.queue = <<>> THEN {} ELSE {Head(rl.queue)}

InitLimiter ==
    /\ proxy_enabled = FALSE
    /\ proxy_list = <<>>
    /\ current_proxy_index = 0
    /\ grants = 0
    /\ fetch = [f \in Fetches |-> IdleFrame]
    /\ returned = <<>>
    /\ schema = "None"
    /\ boot = IdleBoot([has_phases |-> FALSE, phases |-> <<>>])
    /\ gameweeks = <<>>
    /\ gw_result = <<>>
    /\ ColdCache
    /\ \E m \in 1..MaxRequests, p \in 1..MaxPeriod :
          rate_limiter = IdleLimiter(m, p)
    /\ NoSleeper
    /\ NothingFetched
    /\ NoRequest

limiterFrame ==
    <<fetchVars, returned, schema, boot, gameweeks, gw_result, cacheVars,
      sleeper, completed, rpc>>

\* api.py:124, 163   a caller awaits self.rate_limiter.acquire()
Acquire(a) ==
    /\ rate_limiter.pc[a] = "out"
    /\ rate_limiter' = [rate_limiter EXCEPT !.pc[a] = "waiting",
                                            !.queue = Append(@, a)]
    /\ UNCHANGED limiterFrame

\* The limiter records a grant and the caller's acquire() returns.
Grant(a) ==
    /\ a \in NextGranted(rate_limiter)
    /\ HasCapacity(rate_limiter)
    /\ rate_limiter' =
          [rate_limiter EXCEPT
              !.pc[a] = "granted",
              !.queue = SelectSeq(@, LAMBDA b : b # a),
              !.window = <<0>> \o @]
    /\ UNCHANGED limiterFrame

\* api.py:126, 165   the caller goes on to its request, and may call again
Proceed(a) ==
    /\ rate_limiter.pc[a] = "granted"
    /\ rate_limiter' = [rate_limiter EXCEPT !.pc[a] = "out"]
    /\ UNCHANGED limiterFrame

\* One second passes; grants older than the window are pruned.
Second ==
    /\ rate_limiter' =
          [rate_limiter EXCEPT
              !.window = SelectSeq([i \in 1..Len(@) |-> @[i] + 1],
                                   LAMBDA age : age < rate_limiter.per_seconds)]
    /\ UNCHANGED limiterFrame

NextLimiter ==
    \/ \E a \in Acquirers : Acquire(a)
    \/ \E a \in Acquirers : Grant(a)
    \/ \E a \in Acquirers : Proceed(a)
    \/ Second

\* Time passes, and a grant that is possible is made.
SpecLimiter ==
    /\ InitLimiter
    /\ [][NextLimiter]_vars
    /\ WF_vars(Second)
    /\ WF_vars(\E a \in Acquirers : Grant(a))

\* C23: the grants of the last per_seconds seconds never number more than
\* max_requests, so no window of per_seconds holds more than max_requests
\* grants; with (2, 1) a third caller waits until a second has passed.
C23_WindowNeverOverfull ==
    /\ Len(rate_limiter.window) <= rate_limiter.max_requests
    /\ \A i \in 1..Len(rate_limiter.window) :
          rate_limiter.window[i] \in 0..(rate_limiter.per_seconds - 1)

\* With (max_requests=2, per_seconds=1) two callers were granted in this
\* second and the third waits.
C23_Witness ==
    /\ rate_limiter.max_requests = 2 /\ rate_limiter.per_seconds = 1
    /\ rate_limiter.window = <<0, 0>>
    /\ rate_limiter.pc = [a \in Acquirers |-> IF a = "a3" THEN "waiting" ELSE "granted"]

\* C24: the caller granted is always the one that has waited longest, and
\* every caller that waits is granted in the end, whoever else keeps
\* calling.
C24_FirstComeFirstServed ==
    /\ [][\A a \in Acquirers :
            (rate_limiter.pc[a] = "waiting" /\ rate_limiter'.pc[a] = "granted")
                => a = Head(rate_limiter.queue)]_vars
    /\ \A a \in Acquirers :
          (rate_limiter.pc[a] = "waiting") ~> (rate_limiter.pc[a] = "granted")

\* With one grant per window, a2 was granted while a3 and then a1 wait in
\* the order of their calls.
C24_Witness ==
    /\ rate_limiter.max_requests = 1
    /\ rate_limiter.pc["a2"] = "granted"
    /\ rate_limiter.queue = <<"a3", "a1">>
    /\ rate_limiter.window = <<0>>

\* C25: a finished call of get_player_summary(a) holds a document of
\* element-summary/a; the first call for a fetches element-summary/a whatever
\* is cached for the other player; and a step that changes the entry of one
\* player leaves the entry of the other as it was.
C25_SummariesKeyedPerPlayer ==
    [][LET method(a) == IF a = 1 THEN "get_player_summary(1)"
                                 ELSE "get_player_summary(2)"
           endpoint(a) == IF a = 1 THEN "element-summary/1/"
                                   ELSE "element-summary/2/"
           key(a) == IF a = 1 THEN "element_summary:1" ELSE "element_summary:2"
       IN  \A a \in PlayerIds :
            /\ \A c \in Callers :
                  (call'[c].pc = "done" /\ call'[c].method = method(a))
                      => call'[c].of = endpoint(a)
            /\ \A c \in Callers :
                  (/\ Calls(c) /\ call'[c].method = method(a)
                   /\ upstream[endpoint(a)] = 0)
                      => upstream'[endpoint(a)] = 1
            /\ \A b \in PlayerIds \ {a} :
                  store'[key(a)] # store[key(a)]
                      => store'[key(b)] = store[key(b)]]_vars

\* The summary of player 2 was fetched while the summary of player 1 was
\* cached, and each caller holds the document of its own player.
C25_Witness ==
    /\ call["c1"].pc = "done" /\ call["c1"].method = "get_player_summary(1)"
    /\ call["c1"].ok /\ call["c1"].of = "element-summary/1/"
    /\ call["c2"].pc = "done" /\ call["c2"].method = "get_player_summary(2)"
    /\ call["c2"].ok /\ call["c2"].of = "element-summary/2/"
    /\ store["element_summary:1"] # <<>> /\ store["element_summary:2"] # <<>>
    /\ store["element_summary:1"][1].createdAt < store["element_summary:2"][1].createdAt

\* C26: a failed direct attempt is followed by a backoff sleep only if it
\* was not the last one and did not fail with 403; it is never followed by
\* the next direct attempt without a sleep; a sleep is followed by the next
\* direct attempt and by nothing else; and the first proxy attempt follows
\* the direct 403 without a sleep.
C26_OneBackoffBetweenDirectAttempts ==
    [][\A f \in Fetches :
        LET a == fetch[f]
            b == fetch'[f]
        IN  /\ (a.pc = "d_http" /\ b.pc # "d_http") =>
                /\ b.pc \in {"d_sleep", "done", "failed", "p_acquire"}
                /\ b.pc = "d_sleep" =>
                      /\ a.attempt < a.max_retries
                      /\ b.attempt = a.attempt
                      /\ ~Is403(b.last_error)
                /\ b.pc = "p_acquire" => Is403(b.last_error)
            /\ (a.pc = "d_sleep" /\ b.pc # "d_sleep") =>
                /\ b.pc = "d_acquire"
                /\ b.attempt = a.attempt + 1
            /\ (b.pc = "d_acquire" /\ a.pc # "d_acquire" /\ b.attempt >= 1) =>
                a.pc = "d_sleep"
            /\ (b.pc = "p_acquire" /\ ~InProxyPhase(a)) => a.pc = "d_http"]_vars

\* The last of four direct attempts failed with a request error and the
\* fetch ended at once, after three sleeps.
C26_Witness ==
    \E f \in Fetches :
        /\ fetch[f].max_retries = DEFAULT_MAX_RETRIES
        /\ fetch[f].pc = "failed"
        /\ fetch[f].nDirect = DEFAULT_MAX_RETRIES + 1
        /\ fetch[f].raised.class = "RequestError"

\* ---------------------------------------------------- the direct backoff
\* The direct loop of _make_request with its sleeps timed.

\* A variant of Delay: the delay grows by one second with every retry.
Delay_Linear(attempt, jitter) == JitterSteps * (attempt + 1) + jitter

\* api.py:142, 149   delay = (2 ** attempt) + random.uniform(0, 1), with
\* the draw of random.uniform as jitter / JitterSteps
Delay(attempt, jitter) == JitterSteps * (2 ^ attempt) + jitter

\* random.uniform(0, 1) returns a value between 0 and 1, either end included.
Jitters == 0..JitterSteps

InitBackoff ==
    /\ proxy_enabled = FALSE
    /\ proxy_list = <<>>
    /\ current_proxy_index = 0
    /\ grants = 0
    /\ fetch = [f \in Fetches |-> IdleFrame]
    /\ returned = <<>>
    /\ schema = "None"
    /\ boot = IdleBoot([has_phases |-> FALSE, phases |-> <<>>])
    /\ gameweeks = <<>>
    /\ gw_result = <<>>
    /\ ColdCache
    /\ ConfiguredLimiter
    /\ NoSleeper
    /\ NothingFetched
    /\ NoRequest

backoffFrame ==
    <<fetchVars, returned, schema, boot, gameweeks, gw_result, cacheVars,
      rate_limiter, completed, rpc>>

\* api.py:105, 123-130   _make_request is called and its first direct
\* request is sent
SleeperEnters(max_retries) ==
    /\ sleeper.pc = "out"
    /\ sleeper' = [IdleSleeper(max_retries) EXCEPT !.pc = "attempt"]
    /\ UNCHANGED backoffFrame

\* api.py:132, 138-140   the direct request returns a body, or fails with
\* 403 and the loop is left by `break`: no sleep
SleeperLeaves ==
    /\ sleeper.pc = "attempt"
    /\ sleeper' = [sleeper EXCEPT !.pc = "left"]
    /\ UNCHANGED backoffFrame

\* api.py:134-137, 141-151   the direct request fails with another status
\* or a request error: the sleep of `delay` seconds starts, or the loop ends
SleeperFails(jitter) ==
    /\ sleeper.pc = "attempt"
    /\ IF DirectBackoff(sleeper.attempt, sleeper.max_retries)
         THEN LET delay == Delay(sleeper.attempt, jitter) IN
              sleeper' = [sleeper EXCEPT !.pc = "sleep", !.delay = delay,
                                         !.waits = Append(@, delay)]
         ELSE sleeper' = [sleeper EXCEPT !.pc = "left"]
    /\ UNCHANGED backoffFrame

\* api.py:144, 151, then 123-130   the sleep ends and the next direct
\* request is sent
SleeperWakes ==
    /\ sleeper.pc = "sleep"
    /\ sleeper' = [sleeper EXCEPT !.pc = "attempt", !.attempt = @ + 1,
                                  !.delay = 0]
    /\ UNCHANGED backoffFrame

NextBackoff ==
    \/ \E max_retries \in RetryChoices : SleeperEnters(max_retries)
    \/ SleeperLeaves
    \/ \E jitter \in Jitters : SleeperFails(jitter)
    \/ SleeperWakes

SpecBackoff == InitBackoff /\ [][NextBackoff]_vars

\* C27: the i-th sleep of a run of the direct loop follows the failed
\* attempt with index i - 1 and lasts at least 2^(i-1) seconds and at most
\* 2^(i-1) + 1 seconds; so the least possible wait doubles from one retry
\* to the next.
C27_BackoffDoubles ==
    /\ \A i \in 1..Len(sleeper.waits) :
          /\ sleeper.waits[i] >= JitterSteps * (2 ^ (i - 1))
          /\ sleeper.waits[i] <= JitterSteps * (2 ^ (i - 1) + 1)
    /\ sleeper.pc = "sleep" =>
          /\ Len(sleeper.waits) = sleeper.attempt + 1
          /\ sleeper.delay = sleeper.waits[sleeper.attempt + 1]

\* Three sleeps of the default run: the shortest first one, then two of
\* the longest (1, 3 and 5 seconds).
C27_Witness ==
    /\ sleeper.max_retries = DEFAULT_MAX_RETRIES
    /\ sleeper.pc = "left"
    /\ sleeper.attempt = DEFAULT_MAX_RETRIES
    /\ sleeper.waits = <<JitterSteps, 3 * JitterSteps, 5 * JitterSteps>>

\* C28: when every acquire(), HTTP call and sleep returns, a call of
\* _make_request in progress ends, returning or raising; and at no time has
\* it made more than max_retries + 1 direct attempts or more than
\* len(proxy_list) * PROXY_MAX_RETRIES proxy attempts.
C28_FetchTerminatesWithinBudget ==
    /\ [](\A f \in Fetches :
            /\ fetch[f].nDirect <= fetch[f].max_retries + 1
            /\ fetch[f].nProxy <= Len(proxy_list) * PROXY_MAX_RETRIES)
    /\ \A f \in Fetches :
          Running(f) ~> (fetch[f].pc \in {"done", "failed"})

\* A call that used its whole budget: the last direct attempt got 403 and
\* every proxy of a pool of two or more was tried PROXY_MAX_RETRIES times.
C28_Witness ==
    \E f \in Fetches :
        /\ Len(proxy_list) > 1
        /\ fetch[f].pc = "failed"
        /\ fetch[f].nDirect = fetch[f].max_retries + 1
        /\ fetch[f].max_retries = DEFAULT_MAX_RETRIES
        /\ fetch[f].nProxy = Len(proxy_list) * PROXY_MAX_RETRIES

\* C29: a call in progress has no successful attempt behind it; the step
\* in which an attempt succeeds (direct or through a proxy) ends the call
\* with the JSON body of that very attempt, and takes no grant from the
\* limiter and no proxy from the rotation; and a call that has returned
\* does nothing more: no acquire, attempt, sleep or draw.
C29_FirstSuccessEndsFetch ==
    [][\A f \in Fetches :
        LET a == fetch[f]
            b == fetch'[f]
        IN  /\ Running(f) => a.result = NoResult
            /\ (a.result = NoResult /\ b.result # NoResult) =>
                /\ a.pc \in {"d_http", "p_http"}
                /\ b.pc = "done"
                /\ b.result = IF a.pc = "d_http"
                                 THEN Json(0, a.attempt)
                                 ELSE Json(a.proxy, a.retry)
                /\ b.nDirect + b.nProxy = a.nDirect + a.nProxy + 1
                /\ b.drawn = a.drawn
                /\ grants' = grants
                /\ current_proxy_index' = current_proxy_index
            /\ a.pc = "done" => b = a]_vars

\* A call returned the body of its second attempt on the second proxy it
\* drew, after one direct attempt.
C29_Witness ==
    \E f \in Fetches :
        /\ fetch[f].pc = "done"
        /\ fetch[f].nDirect = 1
        /\ Len(fetch[f].drawn) = 2
        /\ fetch[f].result = Json(fetch[f].drawn[2], 1)

\* C30: the cursor is always between 0 and len(proxy_list), both included;
\* and with rotation enabled the index the next call of _get_next_proxy
\* reads is between 0 and len(proxy_list) - 1 and every call so far
\* returned an entry of the pool, never None.
C30_CursorInRange ==
    /\ current_proxy_index \in 0..Len(proxy_list)
    /\ proxy_rotation_enabled =>
          /\ WrappedIndex(current_proxy_index) \in 0..(Len(proxy_list) - 1)
          /\ \A n \in 1..Len(returned) :
                /\ returned[n] # 0
                /\ returned[n] \in Range(proxy_list)

\* The cursor stands at len(proxy_list) for the second time: the pool of
\* two was read through twice.
C30_Witness ==
    /\ proxy_rotation_enabled
    /\ Len(proxy_list) = 2
    /\ current_proxy_index = Len(proxy_list)
    /\ Len(returned) = 2 * Len(proxy_list)

\* ------------------------------------------------- the cursor as a frame
\* The proxies the fetches of S drew, counted.
RECURSIVE DrawsOf(_)
DrawsOf(S) ==
    IF S = {} THEN 0
    ELSE LET f == CHOOSE x \in S : TRUE IN
         Len(fetch[f].drawn) + DrawsOf(S \ {f})

\* The fetches that draw a proxy in this step.
Drawing == {f \in Fetches : fetch'[f].drawn # fetch[f].drawn}

\* C31 as stated: every step adds to current_proxy_index the number of
\* proxies drawn in it, so that a fetch leaves the cursor higher by the
\* number of proxies it drew.
C31_CursorGrowsByDraws ==
    [][current_proxy_index' = current_proxy_index + Cardinality(Drawing)]_vars

\* C31 amended: a step of a fetch that draws no proxy leaves the cursor as
\* it was, and a fetch outside the proxy phase that made no proxy attempt,
\* or any fetch with rotation disabled, has drawn none; a step that draws
\* moves the cursor to the next position of the rotation, which is 1 again
\* when the cursor stood at len(proxy_list); so the position of the cursor
\* is the number of proxies drawn by all fetches, modulo len(proxy_list).
C31_CursorFollowsDraws ==
    /\ [][/\ Cardinality(Drawing) <= 1
          /\ Drawing = {} => current_proxy_index' = current_proxy_index
          /\ Drawing # {} =>
                current_proxy_index' =
                    (current_proxy_index % Len(proxy_list)) + 1]_vars
    /\ [](/\ \A f \in Fetches :
               /\ (~InProxyPhase(fetch[f]) /\ fetch[f].nProxy = 0)
                     => fetch[f].drawn = <<>>
               /\ ~proxy_rotation_enabled => fetch[f].drawn = <<>>
          /\ proxy_rotation_enabled =>
                WrappedIndex(current_proxy_index)
                    = DrawsOf(Fetches) % Len(proxy_list))

\* Three proxies were drawn from a pool of two: the cursor went around and
\* stands at 1.
C31_Witness ==
    /\ Len(proxy_list) = 2
    /\ DrawsOf(Fetches) = 3
    /\ current_proxy_index = 1

\* C32: a direct attempt that ends in an HTTP error status other than 403
\* is followed by the backoff sleep of the same attempt when attempts
\* remain, and otherwise by the final raise of that error; it draws no
\* proxy, moves no cursor and never opens the proxy phase.
C32_OtherStatusesAreTransient ==
    [][\A f \in Fetches :
        LET a == fetch[f]
            b == fetch'[f]
            e == IF b.pc = "failed" THEN b.raised ELSE b.last_error
        IN  (/\ a.pc = "d_http"
             /\ b.nDirect = a.nDirect + 1
             /\ e.class = "HTTPStatusError"
             /\ e.status # FORBIDDEN) =>
                /\ e.via = 0 /\ e.n = a.attempt
                /\ IF a.attempt < a.max_retries
                      THEN b.pc = "d_sleep" /\ b.attempt = a.attempt
                      ELSE b.pc = "failed"
                /\ ~InProxyPhase(b)
                /\ b.drawn = a.drawn
                /\ b.nProxy = a.nProxy
                /\ current_proxy_index' = current_proxy_index]_vars

\* With proxies to rotate through, every direct attempt of a fetch got 404
\* and the fetch raised the last 404 without drawing a proxy.
C32_Witness ==
    \E f \in Fetches :
        /\ proxy_rotation_enabled
        /\ fetch[f].pc = "failed"
        /\ fetch[f].raised = HTTPStatusError(404, 0, DEFAULT_MAX_RETRIES)
        /\ fetch[f].nDirect = DEFAULT_MAX_RETRIES + 1
        /\ fetch[f].drawn = <<>>

\* C33: once a fetch has made a direct attempt and is still running,
\* last_error holds the caught error of its latest direct attempt; so the
\* final raise, reached only after a caught error, raises an
\* HTTPStatusError or RequestError of a direct attempt of this fetch, and
\* no fetch fails by raising None.
C33_FinalRaiseHasAnError ==
    \A f \in Fetches :
        LET fr == fetch[f] IN
        /\ (Running(f) /\ fr.nDirect > 0) =>
              /\ IsCaught(fr.last_error)
              /\ fr.last_error.via = 0
              /\ fr.last_error.n = fr.nDirect - 1
        /\ fr.pc = "failed" =>
              /\ fr.raised # None
              /\ fr.raised.class # "JSONDecodeError" =>
                    /\ IsCaught(fr.raised)
                    /\ fr.raised.via = 0
                    /\ fr.raised.n = fr.nDirect - 1

\* A fetch with max_retries = 0 made its only direct attempt, which failed
\* on a request error, and raised that error.
C33_Witness ==
    \E f \in Fetches :
        /\ fetch[f].max_retries = 0
        /\ fetch[f].pc = "failed"
        /\ fetch[f].nDirect = 1
        /\ fetch[f].raised = RequestError(0, 0)

\* ------------------------------------------------ the chain of three caches
\* get_current_gameweek over get_gameweeks over get_bootstrap_static, each
\* cached under its own key, over a long time. Time passes while a fetch is
\* out; a producer whose awaited accessor has returned resumes at once.
ChainMethods == {"get_bootstrap_static", "get_gameweeks", "get_current_gameweek"}

\* The one caller of the chain: its calls follow one another.
ChainCaller == "c1"

\* One step of the clock: an entry kept for CACHE_TTL is live one step
\* after it was made and gone after two; one kept for CURRENT_GAMEWEEK_TTL
\* is gone after one.
StaleTickSeconds == CACHE_TTL - CURRENT_GAMEWEEK_TTL

staleFrame ==
    <<fetchVars, returned, schema, boot, gameweeks, gw_result, rate_limiter,
      sleeper, rpc>>

StaleCall(c, m) ==
    /\ call[c].n < MaxStaleCalls
    /\ Invoke(c, m)

\* api.py:234   _make_request returns the document to the producer of k; the
\* time of the return is noted
StaleFetchOk(k) ==
    /\ prod[k].pc = "fetching"
    /\ Complete(k, Outcome(TRUE, prod[k].doc))
    /\ completed' = completed \cup
                        {[of |-> prod[k].of, doc |-> prod[k].doc, at |-> now]}
    /\ UNCHANGED staleFrame

StaleTick ==
    /\ now < MaxStaleTicks * StaleTickSeconds
    /\ \A k \in Keys : prod[k].pc # "ready"
    /\ now' = now + StaleTickSeconds
    /\ UNCHANGED <<store, prod, invoked, upstream, call, leader, quietVars>>

NextStale ==
    \/ \E m \in ChainMethods : StaleCall(ChainCaller, m)
    \/ \E k \in Keys : StaleFetchOk(k)
    \/ \E k \in Keys : FetchFail(k)
    \/ \E k \in Keys : Resume(k)
    \/ StaleTick

SpecStale == InitCache /\ [][NextStale]_vars

\* api.py:225, 258, 269   the ttls of the three layers, added
ChainTtl == CURRENT_GAMEWEEK_TTL + CACHE_TTL + CACHE_TTL

\* C34: whenever a call of get_current_gameweek returns a gameweek, the
\* gameweek comes from a bootstrap-static document whose fetch returned no
\* earlier than ChainTtl seconds before.
C34_ChainStalenessBounded ==
    [][\A c \in Callers :
        (/\ call'[c] # call[c]
         /\ call'[c].pc = "done" /\ call'[c].ok
         /\ call'[c].method = "get_current_gameweek") =>
            /\ call'[c].of = "bootstrap-static/"
            /\ \E r \in completed' :
                  /\ r.of = call'[c].of
                  /\ r.doc = call'[c].doc
                  /\ r.at >= now' - ChainTtl]_vars

\* A caller has the gameweek from an entry made just now out of a document
\* fetched two steps of the clock ago: the gameweeks entry it was made of
\* outlived the bootstrap_static entry.
C34_Witness ==
    \E c \in Callers, r \in completed :
        /\ call[c].pc = "done" /\ call[c].ok
        /\ call[c].method = "get_current_gameweek"
        /\ r.of = call[c].of /\ r.doc = call[c].doc
        /\ store["current_gameweek"] # <<>>
        /\ store["current_gameweek"][1].doc = r.doc
        /\ store["current_gameweek"][1].createdAt = now
        /\ now - r.at = 2 * StaleTickSeconds

\* ================================================= web_server.py: JSON-RPC
\* ------------------------------------------------------------- requests
\* web_server.py:463-664   the methods served, one that is not, and "None":
\* the request has no method
KnownMethods ==
    {"initialize", "resources/list", "tools/list", "resources/read", "tools/call"}
RpcMethods == KnownMethods \cup {"ping", "None"}

\* web_server.py:461   request.get("id"): <<>> is None
RpcIds == {<<>>} \cup {<<n>> : n \in 1..MaxRpcIds}

\* web_server.py:583-594
Uris ==
    {"fpl://static/players", "fpl://static/teams", "fpl://gameweeks/current",
     "fpl://fixtures"}

\* web_server.py:629-637
Tools == {"analyze_player_fixtures", "compare_players", "analyze_players"}

\* web_server.py:578, 624-626   "params" is missing, is null, or is an
\* object: with a uri (missing, empty, served, not served), or with a tool
\* name (missing, served, not served) and arguments (missing, an object,
\* null).
ParamChoices ==
    {[shape |-> sh, uri |-> "None", name |-> "None", arguments |-> "absent"] :
        sh \in {"absent", "null"}}
    \cup {[shape |-> "object", uri |-> u, name |-> "None", arguments |-> "absent"] :
            u \in Uris \cup {"None", "", "fpl://unknown"}}
    \cup {[shape |-> "object", uri |-> "None", name |-> n, arguments |-> a] :
            n \in Tools \cup {"None", "unknown_tool"},
            a \in {"absent", "object", "null"}}

Requests == [method : RpcMethods, id : RpcIds, params : ParamChoices]

\* ---------------------------------------------------------------- errors
NoError == [class |-> "None", what |-> "", arg |-> ""]
Error(class, what, arg) == [class |-> class, what |-> what, arg |-> arg]

\* web_server.py:585-594, 631-637   what the awaited data accessor does:
\* it returns data, or raises
Outcomes ==
    {[kind |-> "returns", data |-> d, error |-> "None"] : d \in 0..MaxRpcDocs}
    \cup {[kind |-> "raises", data |-> 0, error |-> e] :
            e \in {"HTTPStatusError", "KeyError"}}

\* ------------------------------------------------------------- responses
NoText == [indent |-> 0, of |-> 0]

\* web_server.py:606, 648   json.dumps(data, indent=2)
Dumps(data) == [indent |-> 2, of |-> data]

NoBody == [what |-> "", uri |-> "", text |-> NoText]
Body(what, uri, text) == [what |-> what, uri |-> uri, text |-> text]

NoMessage == [prefix |-> "", what |-> "", arg |-> ""]

\* f"{prefix}: {str(e)}"
Message(prefix, e) == [prefix |-> prefix, what |-> e.what, arg |-> e.arg]

\* {"jsonrpc": "2.0", "id": id, "result": result}
Response(id, result) ==
    [jsonrpc |-> "2.0", id |-> id, kind |-> "result", code |-> 0,
     message |-> NoMessage, result |-> result]

\* {"jsonrpc": "2.0", "id": id, "error": {"code": code, "message": message}}
ErrorResponse(id, code, message) ==
    [jsonrpc |-> "2.0", id |-> id, kind |-> "error", code |-> code,
     message |-> message, result |-> NoBody]

\* How a piece of code ends: it returns a value, or raises.
Returned(v) == [returned |-> <<v>>, raised |-> NoError]
Raised(e) == [returned |-> <<>>, raised |-> e]

\* A variant of Caught: the handlers catch ValueError only.
Caught_ValueErrorOnly(e) == e.class = "ValueError"

\* web_server.py:293, 338, 612, 654   `except Exception`
Caught(e) == e.class \in {"ValueError", "AttributeError", "TypeError",
                          "HTTPStatusError", "KeyError"}

\* The awaited accessor returns its data or raises its error.
Await(outcome) ==
    IF outcome.kind = "returns"
        THEN Returned(outcome.data)
        ELSE Raised(Error(outcome.error, outcome.error, ""))

\* json.dumps(data, indent=2) raises TypeError on a value that is not JSON
Serialised(data) ==
    IF data = 0
        THEN Raised(Error("TypeError", "not JSON serializable", ""))
        ELSE Returned(Dumps(data))

\* ---------------------------------------------------- process_mcp_request
\* web_server.py:464-486, 489-520, 523-574   the three fixed results
InitializeResult == Body("protocolVersion 2024-11-05", "", NoText)
ResourcesListResult == Body("resources", "", NoText)
ToolsListResult == Body("tools", "", NoText)

\* web_server.py:578-610   the try block of resources/read
HttpReadTry(request, request_id, outcome) ==
    IF request.params.shape = "null"
        THEN Raised(Error("AttributeError", "NoneType has no attribute get", ""))
    ELSE LET uri == request.params.uri IN
         IF uri \in {"None", ""}
             THEN Raised(Error("ValueError", "No URI provided", ""))
         ELSE IF uri \in Uris
             THEN LET data == Await(outcome) IN
                  IF data.raised # NoError THEN Raised(data.raised)
                  ELSE LET text == Serialised(data.returned[1]) IN
                       IF text.raised # NoError THEN Raised(text.raised)
                       ELSE Returned(Response(request_id,
                                Body("contents", uri, text.returned[1])))
         ELSE Raised(Error("ValueError", "Unknown resource", uri))

\* web_server.py:624-652   the try block of tools/call
HttpToolTry(request, request_id, outcome) ==
    IF request.params.shape = "null"
        THEN Raised(Error("AttributeError", "NoneType has no attribute get", ""))
    ELSE LET tool_name == request.params.name
             arguments == request.params.arguments
         IN  IF tool_name \in Tools
                 THEN IF arguments = "null"
                          THEN Raised(Error("TypeError",
                                   "argument after ** must be a mapping", ""))
                      ELSE LET result == Await(outcome) IN
                           IF result.raised # NoError THEN Raised(result.raised)
                           ELSE LET text == Serialised(result.returned[1]) IN
                                IF text.raised # NoError THEN Raised(text.raised)
                                ELSE Returned(Response(request_id,
                                         Body("content", "", text.returned[1])))
             ELSE Raised(Error("ValueError", "Unknown tool", tool_name))

\* A variant of HttpUnknownMethod: the request is reported as invalid.
HttpUnknownMethod_InvalidRequest(request_id, method) ==
    ErrorResponse(request_id, -32600,
                  Message("Invalid Request", Error("", method, "")))

\* web_server.py:664-673
HttpUnknownMethod(request_id, method) ==
    ErrorResponse(request_id, -32601,
                  Message("Method not found", Error("", method, "")))

\* web_server.py:457-673   process_mcp_request(request), the awaited
\* accessor ending in outcome
ProcessMcpRequest(request, outcome) ==
    LET method == request.method
        request_id == request.id
    IN  IF method = "initialize"
            THEN Returned(Response(request_id, InitializeResult))
        ELSE IF method = "resources/list"
            THEN Returned(Response(request_id, ResourcesListResult))
        ELSE IF method = "tools/list"
            THEN Returned(Response(request_id, ToolsListResult))
        ELSE IF method = "resources/read"
            THEN LET t == HttpReadTry(request, request_id, outcome) IN
                 IF t.raised = NoError THEN t
                 ELSE IF Caught(t.raised)
                     THEN Returned(ErrorResponse(request_id, -32603,
                              Message("Resource read failed", t.raised)))
                     ELSE t
        ELSE IF method = "tools/call"
            THEN LET t == HttpToolTry(request, request_id, outcome) IN
                 IF t.raised = NoError THEN t
                 ELSE IF Caught(t.raised)
                     THEN Returned(ErrorResponse(request_id, -32603,
                              Message("Tool call failed", t.raised)))
                     ELSE t
        ELSE Returned(HttpUnknownMethod(request_id, method))

\* --------------------------------------------------- the WebSocket loop
\* web_server.py:161   json.dumps(response), the text sent
JsonText(response) == [json |-> response]

\* websocket.send_text(json.dumps(response)) was called once, or an error
\* left the code before any send.
Sent(response) == [sent |-> <<JsonText(response)>>, raised |-> NoError]
Unsent(e) == [sent |-> <<>>, raised |-> e]

\* web_server.py:258-291   the try block of resources/read
WsReadTry(request, outcome) ==
    IF request.params.shape = "null"
        THEN Unsent(Error("AttributeError", "NoneType has no attribute get", ""))
    ELSE LET uri == request.params.uri IN
         IF uri \in {"None", ""}
             THEN Unsent(Error("ValueError", "No URI provided", ""))
         ELSE IF uri \in Uris
             THEN LET data == Await(outcome) IN
                  IF data.raised # NoError THEN Unsent(data.raised)
                  ELSE LET text == Serialised(data.returned[1]) IN
                       IF text.raised # NoError THEN Unsent(text.raised)
                       ELSE Sent(Response(request.id,
                                Body("contents", uri, text.returned[1])))
         ELSE Unsent(Error("ValueError", "Unknown resource", uri))

\* web_server.py:307-336   the try block of tools/call
WsToolTry(request, outcome) ==
    IF request.params.shape = "null"
        THEN Unsent(Error("AttributeError", "NoneType has no attribute get", ""))
    ELSE LET tool_name == request.params.name
             arguments == request.params.arguments
         IN  IF tool_name \in Tools
                 THEN IF arguments = "null"
                          THEN Unsent(Error("TypeError",
                                   "argument after ** must be a mapping", ""))
                      ELSE LET result == Await(outcome) IN
                           IF result.raised # NoError THEN Unsent(result.raised)
                           ELSE LET text == Serialised(result.returned[1]) IN
                                IF text.raised # NoError THEN Unsent(text.raised)
                                ELSE Sent(Response(request.id,
                                         Body("content", "", text.returned[1])))
             ELSE Unsent(Error("ValueError", "Unknown tool", tool_name))

\* A variant of WsUnknownMethod: the error carries no id.
WsUnknownMethod_NoId(request) ==
    ErrorResponse(<<>>, -32601,
                  Message("Method not found", Error("", request.method, "")))

\* web_server.py:349-359
WsUnknownMethod(request) ==
    ErrorResponse(request.id, -32601,
                  Message("Method not found", Error("", request.method, "")))

\* web_server.py:130-381   one iteration of the loop, for a message that
\* parsed to the object request
WebSocketIteration(request, outcome) ==
    LET inner ==
          IF request.method = "initialize"
              THEN Sent(Response(request.id, InitializeResult))
          ELSE IF request.method = "resources/list"
              THEN Sent(Response(request.id, ResourcesListResult))
          ELSE IF request.method = "tools/list"
              THEN Sent(Response(request.id, ToolsListResult))
          ELSE IF request.method = "resources/read"
              THEN LET t == WsReadTry(request, outcome) IN
                   IF t.raised = NoError THEN t
                   ELSE IF Caught(t.raised)
                       THEN Sent(ErrorResponse(request.id, -32603,
                                Message("Resource read failed", t.raised)))
                       ELSE t
          ELSE IF request.method = "tools/call"
              THEN LET t == WsToolTry(request, outcome) IN
                   IF t.raised = NoError THEN t
                   ELSE IF Caught(t.raised)
                       THEN Sent(ErrorResponse(request.id, -32603,
                                Message("Tool call failed", t.raised)))
                       ELSE t
          ELSE Sent(WsUnknownMethod(request))
    IN  IF inner.raised = NoError THEN inner
        ELSE IF Caught(inner.raised)
            THEN Sent(ErrorResponse(request.id, -32603,
                          Message("Internal error", inner.raised)))
            ELSE inner

\* ---------------------------------------------------------------- actions
InitRpc ==
    /\ proxy_enabled = FALSE
    /\ proxy_list = <<>>
    /\ current_proxy_index = 0
    /\ grants = 0
    /\ fetch = [f \in Fetches |-> IdleFrame]
    /\ returned = <<>>
    /\ schema = "None"
    /\ boot = IdleBoot([has_phases |-> FALSE, phases |-> <<>>])
    /\ gameweeks = <<>>
    /\ gw_result = <<>>
    /\ ColdCache
    /\ ConfiguredLimiter
    /\ NoSleeper
    /\ NothingFetched
    /\ NoRequest

rpcFrame ==
    <<fetchVars, returned, schema, boot, gameweeks, gw_result, cacheVars,
      rate_limiter, sleeper, completed>>

\* A client has the request object request to send; the accessor it may
\* reach will end in outcome.
Receive(request, outcome) ==
    /\ rpc.pc = "idle"
    /\ rpc' = [pc |-> "received", request |-> request, outcome |-> outcome,
               http |-> <<>>, ws |-> <<>>]
    /\ UNCHANGED rpcFrame

\* web_server.py:400-405   the request is posted to /mcp/http:
\* process_mcp_request(body) runs
HttpPost ==
    /\ rpc.pc = "received"
    /\ rpc.http = <<>>
    /\ rpc' = [rpc EXCEPT !.http = <<ProcessMcpRequest(rpc.request, rpc.outcome)>>]
    /\ UNCHANGED rpcFrame

\* web_server.py:130-381   the request is sent as a message on /mcp/ws: one
\* iteration of the loop runs
WsReceive ==
    /\ rpc.pc = "received"
    /\ rpc.ws = <<>>
    /\ rpc' = [rpc EXCEPT !.ws = <<WebSocketIteration(rpc.request, rpc.outcome)>>]
    /\ UNCHANGED rpcFrame

NextRpc ==
    \/ \E request \in Requests, outcome \in Outcomes : Receive(request, outcome)
    \/ HttpPost
    \/ WsReceive

SpecRpc == InitRpc /\ [][NextRpc]_vars

\* C35: process_mcp_request ends by returning one response and raising
\* nothing; the response is a JSON-RPC 2.0 result or error with the id of
\* the request (none when the request has none); and for a method that is
\* none of the five served, a missing one included, it is the error -32601.
C35_OneResponsePerRequest ==
    rpc.http # <<>> =>
        LET h == rpc.http[1] IN
        /\ h.raised = NoError
        /\ Len(h.returned) = 1
        /\ h.returned[1].jsonrpc = "2.0"
        /\ h.returned[1].id = rpc.request.id
        /\ h.returned[1].kind \in {"result", "error"}
        /\ rpc.request.method \notin KnownMethods =>
              /\ h.returned[1].kind = "error"
              /\ h.returned[1].code = -32601

\* A request for a method that is not served, with id 2, was answered.
C35_Witness ==
    /\ rpc.http # <<>>
    /\ rpc.request.method = "ping"
    /\ rpc.request.id = <<2>>
    /\ rpc.http[1].returned # <<>>
    /\ rpc.http[1].returned[1].message.what = "ping"

\* What makes resources/read or tools/call fail: params that is null, a
\* uri or tool that is missing or not served, arguments that are null, an
\* accessor that raises, data that json.dumps rejects.
Fails(request, outcome) ==
    LET broken == outcome.kind = "raises" \/ outcome.data = 0 IN
    \/ /\ request.method = "resources/read"
       /\ \/ request.params.shape = "null"
          \/ request.params.uri \notin Uris
          \/ broken
    \/ /\ request.method = "tools/call"
       /\ \/ request.params.shape = "null"
          \/ request.params.name \notin Tools
          \/ request.params.arguments = "null"
          \/ broken

\* C36: when serving resources/read or tools/call fails, process_mcp_request
\* raises nothing and returns the error -32603 with the id of the request;
\* when it does not fail, the response is a result.
C36_FailuresBecomeInternalErrors ==
    (/\ rpc.http # <<>>
     /\ rpc.request.method \in {"resources/read", "tools/call"}) =>
        LET h == rpc.http[1] IN
        /\ h.raised = NoError
        /\ Len(h.returned) = 1
        /\ IF Fails(rpc.request, rpc.outcome)
              THEN /\ h.returned[1].kind = "error"
                   /\ h.returned[1].code = -32603
                   /\ h.returned[1].id = rpc.request.id
              ELSE h.returned[1].kind = "result"

\* The accessor behind compare_players raised; the caller with id 1 was
\* answered with the error of the tool call.
C36_Witness ==
    /\ rpc.http # <<>>
    /\ rpc.request.method = "tools/call"
    /\ rpc.request.params.name = "compare_players"
    /\ rpc.request.params.arguments = "object"
    /\ rpc.request.id = <<1>>
    /\ rpc.outcome.kind = "raises"
    /\ rpc.http[1].returned # <<>>
    /\ rpc.http[1].returned[1].message =
          [prefix |-> "Tool call failed", what |-> rpc.outcome.error, arg |-> ""]

\* C37: for the same request object and the same end of the accessor, the
\* WebSocket loop sends one message, and it is the JSON text of the
\* response process_mcp_request returns: same id, same result, or same
\* error code and message.
C37_WebSocketEqualsHttp ==
    (rpc.http # <<>> /\ rpc.ws # <<>>) =>
        LET h == rpc.http[1]
            w == rpc.ws[1]
        IN  /\ h.raised = NoError
            /\ w.raised = NoError
            /\ Len(h.returned) = 1
            /\ Len(w.sent) = 1
            /\ w.sent[1] = JsonText(h.returned[1])

\* Both transports served fpl://fixtures to the request with id 1.
C37_Witness ==
    /\ rpc.http # <<>> /\ rpc.ws # <<>>
    /\ rpc.request.method = "resources/read"
    /\ rpc.request.params.uri = "fpl://fixtures"
    /\ rpc.request.id = <<1>>
    /\ rpc.outcome.kind = "returns" /\ rpc.outcome.data = 1
    /\ rpc.ws[1].sent # <<>>
    /\ rpc.ws[1].sent[1].json.result = Body("contents", "fpl://fixtures", Dumps(1))
====
